---------------------------- MODULE Spec2Model ----------------------------
(***************************************************************************)
(* A model of QSMImport's row mapper (app/mappers/lms_task_mapper.py), its *)
(* answer parser (app/utils/parsing.py, app/utils/text.py) and its PHP     *)
(* serialization codec (app/qsm/php_serialize.py).                         *)
(*                                                                         *)
(* A Python str is a sequence of Unicode code points (integers).  A float  *)
(* is an integer number of hundredths; the rows drawn use point values     *)
(* that are multiples of 0.25, for which float arithmetic is exact.        *)
(***************************************************************************)
EXTENDS Integers, Sequences, FiniteSets, TLC

VARIABLES
    row,      \* the QuestionInputRow being mapped
    meta,     \* the lookup tables: [courses, difficulties]
    settings, \* the Settings handed to the mapper, or None
    value,    \* the value handed to the serialization codec
    result,   \* the outcome of the operation that ran: [op, ok, val]
    log       \* the warnings recorded by the operation, in order

vars == <<row, meta, settings, value, result, log>>

\* Python's None where a dict or an object is expected, and where a str is
\* expected (no code point is negative)
None == [py |-> "None"]

NoneStr == <<-1>>

---------------------------------------------------------------------------
(* Characters.  Ord gives the code point of the ASCII characters the model *)
(* writes its inputs with; Str turns a sequence of them into a str.        *)

Ord ==
    (" " :> 32) @@ ("\t" :> 9) @@ ("\n" :> 10) @@ ("\r" :> 13) @@
    ("\"" :> 34) @@ ("(" :> 40) @@ (")" :> 41) @@ ("+" :> 43) @@
    ("," :> 44) @@ ("-" :> 45) @@ ("." :> 46) @@
    ("0" :> 48) @@ ("1" :> 49) @@ ("2" :> 50) @@ ("3" :> 51) @@ ("4" :> 52) @@
    ("5" :> 53) @@ ("6" :> 54) @@ ("7" :> 55) @@ ("8" :> 56) @@ ("9" :> 57) @@
    (":" :> 58) @@ (";" :> 59) @@
    ("A" :> 65) @@ ("B" :> 66) @@ ("C" :> 67) @@ ("E" :> 69) @@ ("H" :> 72) @@
    ("M" :> 77) @@ ("N" :> 78) @@ ("O" :> 79) @@ ("P" :> 80) @@ ("Q" :> 81) @@
    ("S" :> 83) @@ ("T" :> 84) @@ ("X" :> 88) @@ ("_" :> 95) @@ ("m" :> 109) @@
    ("[" :> 91) @@ ("]" :> 93) @@ ("^" :> 94) @@ ("$" :> 36) @@
    ("a" :> 97) @@ ("b" :> 98) @@ ("c" :> 99) @@ ("d" :> 100) @@ ("e" :> 101) @@
    ("i" :> 105) @@ ("l" :> 108) @@ ("n" :> 110) @@ ("o" :> 111) @@
    ("p" :> 112) @@ ("r" :> 114) @@ ("s" :> 115) @@
    ("t" :> 116) @@ ("u" :> 117) @@ ("x" :> 120) @@ ("y" :> 121) @@
    ("{" :> 123) @@ ("|" :> 124) @@ ("}" :> 125)

Str(cs) == [i \in 1..Len(cs) |-> Ord[cs[i]]]

RECURSIVE JoinWith(_, _)
JoinWith(sep, ss) ==
    IF ss = <<>> THEN <<>>
    ELSE IF Len(ss) = 1 THEN ss[1]
    ELSE ss[1] \o sep \o JoinWith(sep, Tail(ss))

\* s[a..b], empty when a > b
Slice(s, a, b) == IF a > b THEN <<>> ELSE SubSeq(s, a, b)

StartsWith(s, p) == Len(s) >= Len(p) /\ SubSeq(s, 1, Len(p)) = p

\* str(n) of an int: its decimal digits, "-" first when negative
RECURSIVE NatToStr(_)
NatToStr(n) == IF n < 10 THEN <<48 + n>> ELSE NatToStr(n \div 10) \o <<48 + (n % 10)>>

IntToStr(n) == IF n < 0 THEN <<45>> \o NatToStr(0 - n) ELSE NatToStr(n)

---------------------------------------------------------------------------
(* str methods of Python the code calls.                                   *)

\* str.isspace() of one character
IsSpace(c) ==
    c \in ({9, 10, 11, 12, 13, 28, 29, 30, 31, 32, 133, 160, 5760}
           \cup (8192..8202) \cup {8232, 8233, 8239, 8287, 12288})

\* the line boundaries of str.splitlines()
IsLineBreak(c) == c \in {10, 11, 12, 13, 28, 29, 30, 133, 8232, 8233}

\* str.lower() of one character: ASCII and the Cyrillic block
LowerChar(c) ==
    IF c \in 65..90 THEN c + 32
    ELSE IF c \in 1040..1071 THEN c + 32
    ELSE IF c \in 1024..1039 THEN c + 80
    ELSE c

Lower(s) == [i \in 1..Len(s) |-> LowerChar(s[i])]

RECURSIVE LStrip(_)
LStrip(s) == IF s # <<>> /\ IsSpace(Head(s)) THEN LStrip(Tail(s)) ELSE s

RECURSIVE RStrip(_)
RStrip(s) ==
    IF s # <<>> /\ IsSpace(s[Len(s)]) THEN RStrip(SubSeq(s, 1, Len(s) - 1)) ELSE s

\* str.strip()
Strip(s) == RStrip(LStrip(s))

\* str.split(): the maximal runs of non-whitespace
RECURSIVE SplitWsFrom(_, _)
SplitWsFrom(s, cur) ==
    IF s = <<>> THEN (IF cur = <<>> THEN <<>> ELSE <<cur>>)
    ELSE IF IsSpace(Head(s))
         THEN (IF cur = <<>> THEN <<>> ELSE <<cur>>) \o SplitWsFrom(Tail(s), <<>>)
         ELSE SplitWsFrom(Tail(s), Append(cur, Head(s)))

SplitWs(s) == SplitWsFrom(s, <<>>)

\* str.split(sep) for a one-character separator: always at least one piece
RECURSIVE SplitOnFrom(_, _, _)
SplitOnFrom(s, sep, cur) ==
    IF s = <<>> THEN <<cur>>
    ELSE IF Head(s) = sep THEN <<cur>> \o SplitOnFrom(Tail(s), sep, <<>>)
    ELSE SplitOnFrom(Tail(s), sep, Append(cur, Head(s)))

SplitOn(s, sep) == SplitOnFrom(s, sep, <<>>)

\* the position of the first line break of s, which has one
FirstBreak(s) ==
    CHOOSE i \in 1..Len(s) : IsLineBreak(s[i]) /\ \A j \in 1..(i - 1) : ~IsLineBreak(s[j])

\* what follows the line boundary at position b: "\r\n" is one boundary
AfterBreak(s, b) ==
    IF s[b] = 13 /\ Len(s) > b /\ s[b + 1] = 10
    THEN SubSeq(s, b + 2, Len(s)) ELSE SubSeq(s, b + 1, Len(s))

\* str.splitlines(): no empty last line.  One step takes the characters up
\* to the first line break
RECURSIVE SplitLinesFrom(_, _)
SplitLinesFrom(s, cur) ==
    IF \A i \in 1..Len(s) : ~IsLineBreak(s[i])
    THEN (IF cur \o s = <<>> THEN <<>> ELSE <<cur \o s>>)
    ELSE <<cur \o SubSeq(s, 1, FirstBreak(s) - 1)>>
             \o SplitLinesFrom(AfterBreak(s, FirstBreak(s)), <<>>)

SplitLines(s) == SplitLinesFrom(s, <<>>)

\* a variant of RFind that finds the left-most occurrence: str.find(p)
FindFirst(s, p) ==
    LET hits == {i \in 1..(Len(s) - Len(p) + 1) : SubSeq(s, i, i + Len(p) - 1) = p}
    IN  IF hits = {} THEN -1
        ELSE (CHOOSE i \in hits : \A j \in hits : i <= j) - 1

\* str.rfind(p): the 0-based index of the right-most occurrence, or -1
RFind(s, p) ==
    LET hits == {i \in 1..(Len(s) - Len(p) + 1) : SubSeq(s, i, i + Len(p) - 1) = p}
    IN  IF hits = {} THEN -1
        ELSE (CHOOSE i \in hits : \A j \in hits : j <= i) - 1

\* str.replace(a, b) for one-character a and b
Replace(s, a, b) == [i \in 1..Len(s) |-> IF s[i] = a THEN b ELSE s[i]]

\* [f(x) for x in xs if keep(x)] building blocks
RECURSIVE SelectNonEmpty(_)
SelectNonEmpty(ss) ==
    IF ss = <<>> THEN <<>>
    ELSE (IF Head(ss) = <<>> THEN <<>> ELSE <<Head(ss)>>) \o SelectNonEmpty(Tail(ss))

StripEach(ss) == [i \in 1..Len(ss) |-> Strip(ss[i])]

---------------------------------------------------------------------------
(* app/utils/text.py                                                       *)

\* a variant of normalize that keeps the letter case
NormalizeKeepingCase(s) == JoinWith(<<32>>, SplitWs(Strip(s)))

\* normalize: trim, lower-case, collapse whitespace runs to one space
normalize(s) == JoinWith(<<32>>, SplitWs(Lower(Strip(s))))

---------------------------------------------------------------------------
(* app/utils/parsing.py                                                    *)

\* split_lines: the stripped non-blank lines of a cell, in order
split_lines(cell) == SelectNonEmpty(StripEach(SplitLines(cell)))

IsDigit(c) == c \in 48..57

RECURSIVE DigitsValue(_)
DigitsValue(ds) ==
    IF ds = <<>> THEN 0 ELSE 10 * DigitsValue(SubSeq(ds, 1, Len(ds) - 1)) + (ds[Len(ds)] - 48)

\* the fraction digits ds as hundredths (the rows drawn carry at most two)
FractionValue(ds) ==
    IF ds = <<>> THEN 0
    ELSE IF Len(ds) = 1 THEN 10 * (ds[1] - 48)
    ELSE 10 * (ds[1] - 48) + (ds[2] - 48)

\* the value of a literal with whole part intPart and fraction fraPart
FloatOfDigits(negative, intPart, fraPart) ==
    IF /\ \A i \in 1..Len(intPart) : IsDigit(intPart[i])
       /\ \A i \in 1..Len(fraPart) : IsDigit(fraPart[i])
       /\ intPart # <<>> \/ fraPart # <<>>
    THEN [ok |-> TRUE,
          val |-> IF negative
                  THEN 0 - (100 * DigitsValue(intPart) + FractionValue(fraPart))
                  ELSE 100 * DigitsValue(intPart) + FractionValue(fraPart)]
    ELSE [ok |-> FALSE, val |-> 0]

\* the value of a literal whose pieces around "." are parts
FloatOfParts(negative, parts) ==
    IF Len(parts) > 2 THEN [ok |-> FALSE, val |-> 0]
    ELSE FloatOfDigits(negative, parts[1], IF Len(parts) = 2 THEN parts[2] ELSE <<>>)

\* the value of the literal t, which has no surrounding whitespace
FloatOfStripped(t) ==
    FloatOfParts(t # <<>> /\ t[1] = 45,
                 SplitOn(IF t # <<>> /\ t[1] \in {43, 45} THEN Tail(t) ELSE t, 46))

\* float(s) for decimal literals: [sign] digits [. digits] or [sign] . digits,
\* surrounding whitespace ignored, and ValueError for the other cells the
\* rows draw (words, two points).  The value is in hundredths.  The forms
\* float() also reads, an exponent, "inf", "nan", "1_0", are not drawn.
ParseFloat(s) == FloatOfStripped(Strip(s))

\* the variant of a line with text left and a number parsed out of its
\* right-hand side
PointsOutcome(left, parsed) ==
    IF parsed.ok THEN [ok |-> TRUE, text |-> left, points |-> parsed.val]
    ELSE [ok |-> FALSE, err |-> "ValueError"]

\* the variant of a line with text left and right-hand side right
VariantOf(left, right) ==
    IF right = <<>> THEN [ok |-> TRUE, text |-> left, points |-> 0]
    ELSE PointsOutcome(left, ParseFloat(Replace(right, 44, 46)))

\* the variant of a line whose right-most "||" is at idx (from 0), or -1
SplitLineAt(line, idx) ==
    IF idx = -1 THEN [ok |-> FALSE, err |-> "ValueError"]
    ELSE VariantOf(Strip(Slice(line, 1, idx)), Strip(Slice(line, idx + 3, Len(line))))

\* parse_variant_line: split at the right-most "||"; ValueError when the
\* line has no "||" or the right-hand side is no number
parse_variant_line(line) == SplitLineAt(line, RFind(line, <<124, 124>>))

\* parse_variant_line applied to each line
ParsedLines(lines) == [i \in 1..Len(lines) |-> parse_variant_line(lines[i])]

\* the list of (text, points) of the parsed lines; the first that failed
\* raises
BlockOutcome(parsed) ==
    IF \E i \in 1..Len(parsed) : ~parsed[i].ok
    THEN [ok |-> FALSE, err |-> "ValueError"]
    ELSE [ok |-> TRUE,
          val |-> [i \in 1..Len(parsed) |->
                      [text |-> parsed[i].text, points |-> parsed[i].points]]]

\* a variant of parse_variants_block that leaves out the lines that fail to
\* parse
ParseVariantsBlockSkippingBad(block) ==
    BlockOutcome(SelectSeq(ParsedLines(split_lines(block)), LAMBDA p : p.ok))

\* parse_variants_block: one (text, points) per non-blank line, in order
parse_variants_block(block) == BlockOutcome(ParsedLines(split_lines(block)))

\* parse_correct_list: split on ';', strip, drop the empty tokens
parse_correct_list(cell) == SelectNonEmpty(StripEach(SplitOn(cell, 59)))

---------------------------------------------------------------------------
(* app/mappers/lms_task_mapper.py: the choice builders                     *)

\* letters = "ABCDEFGHIJKLMNOPQRSTUVWXYZ"
letters == [i \in 1..26 |-> 64 + i]

\* the ids of the options marked correct, in option order
RECURSIVE CorrectIds(_)
CorrectIds(options) ==
    IF options = <<>> THEN <<>>
    ELSE (IF Head(options).is_correct THEN <<Head(options).id>> ELSE <<>>)
         \o CorrectIds(Tail(options))

\* correct_texts = [normalize(t) for t in parse_correct_list(row.correct_answer)]
CorrectTexts(toks) == {normalize(toks[i]) : i \in 1..Len(toks)}

\* a variant of ChoiceOptionsOf that marks only the first option of a text
ChoiceOptionsOfFirstMatch(vals, correct_texts) ==
    [i \in 1..Len(vals) |->
        [id         |-> <<letters[i]>>,
         text       |-> normalize(vals[i].text),
         is_correct |-> /\ normalize(vals[i].text) \in correct_texts
                        /\ \A j \in 1..(i - 1) :
                              normalize(vals[j].text) # normalize(vals[i].text),
         points     |-> vals[i].points]]

\* the ChoiceOptions of the parsed variants: ids by position, is_correct by
\* normalized text membership in the correct list
ChoiceOptionsOf(vals, correct_texts) ==
    [i \in 1..Len(vals) |->
        [id         |-> <<letters[i]>>,
         text       |-> normalize(vals[i].text),
         is_correct |-> normalize(vals[i].text) \in correct_texts,
         points     |-> vals[i].points]]

\* return options, correct_ids
WithCorrectIds(options) ==
    [ok |-> TRUE, options |-> options, correct_ids |-> CorrectIds(options)]

\* _parse_choice_options after parse_variants_block gave parsed: letters[idx]
\* raises IndexError beyond the last letter
ParsedChoiceOptions(parsed, r) ==
    IF ~parsed.ok THEN [ok |-> FALSE, err |-> parsed.err]
    ELSE IF Len(parsed.val) > Len(letters) THEN [ok |-> FALSE, err |-> "IndexError"]
    ELSE WithCorrectIds(ChoiceOptionsOf(parsed.val,
                                        CorrectTexts(parse_correct_list(r.correct_answer))))

\* _parse_choice_options
ParseChoiceOptions(r) ==
    ParsedChoiceOptions(parse_variants_block(r.variants_and_points), r)

\* a variant of HasExplicitPoints that counts a zero as explicit
HasExplicitPointsOrZero(options) == \E i \in 1..Len(options) : options[i].points >= 0

\* any(opt.points > 0 for opt in options)
HasExplicitPoints(options) == \E i \in 1..Len(options) : options[i].points > 0

\* a variant of EffectiveOptions that substitutes option by option
EffectiveOptionsEachZero(options) ==
    [i \in 1..Len(options) |->
        IF options[i].is_correct /\ options[i].points = 0
        THEN [options[i] EXCEPT !.points = 100]
        ELSE options[i]]

\* the options after the "no explicit points" substitution of
\* _build_solution_for_choice
EffectiveOptions(options) ==
    IF HasExplicitPoints(options) THEN options
    ELSE [i \in 1..Len(options) |->
            IF options[i].is_correct
            THEN [options[i] EXCEPT !.points = 100]
            ELSE options[i]]

\* sum(opt.points for opt in options if opt.is_correct), in hundredths
RECURSIVE SumCorrectPoints(_)
SumCorrectPoints(options) ==
    IF options = <<>> THEN 0
    ELSE (IF Head(options).is_correct THEN Head(options).points ELSE 0)
         + SumCorrectPoints(Tail(options))

\* a variant of RoundToInt that truncates: int(x)
TruncateToInt(h) == IF h >= 0 THEN h \div 100 ELSE 0 - ((0 - h) \div 100)

\* int(round(x)) of a float x given in hundredths: nearest, ties to even
RoundToInt(h) ==
    LET q == h \div 100
        r == h % 100
    IN  IF r < 50 THEN q
        ELSE IF r > 50 THEN q + 1
        ELSE IF q % 2 = 0 THEN q ELSE q + 1

\* _build_penalties
BuildPenalties == [wrong_answer |-> 0, missing_answer |-> 0, extra_wrong_mc |-> 0]

\* max_score = int(round(sum(opt.points for opt in options if opt.is_correct)))
ChoiceMaxScore(options) == RoundToInt(SumCorrectPoints(EffectiveOptions(options)))

\* a variant of ChoiceSolution whose mode follows the number of correct
\* options instead of the type
ChoiceSolutionModeByAnswers(pco, qtype) ==
    [max_score |-> ChoiceMaxScore(pco.options),
     scoring_mode |-> IF Len(pco.correct_ids) <= 1 THEN "all_or_nothing" ELSE "partial",
     auto_check |-> TRUE,
     manual_review_required |-> FALSE,
     correct_options |-> pco.correct_ids,
     partial_rules |-> <<>>,
     short_answer |-> None,
     text_answer |-> None,
     penalties |-> BuildPenalties]

\* the SolutionRules dict of _build_solution_for_choice
ChoiceSolution(pco, qtype) ==
    [max_score |-> ChoiceMaxScore(pco.options),
     scoring_mode |-> IF qtype = "SC" THEN "all_or_nothing" ELSE "partial",
     auto_check |-> TRUE,
     manual_review_required |-> FALSE,
     correct_options |-> pco.correct_ids,
     partial_rules |-> <<>>,
     short_answer |-> None,
     text_answer |-> None,
     penalties |-> BuildPenalties]

\* what _build_solution_for_choice returns for parsed options pco, with
\* the options as the function leaves them
ChoiceOutcome(pco, qtype) ==
    IF ~pco.ok THEN [ok |-> FALSE, err |-> pco.err]
    ELSE [ok |-> TRUE,
          options |-> EffectiveOptions(pco.options),
          max_score |-> ChoiceMaxScore(pco.options),
          solution |-> ChoiceSolution(pco, qtype)]

\* _build_solution_for_choice
BuildSolutionForChoice(r, qtype) == ChoiceOutcome(ParseChoiceOptions(r), qtype)

---------------------------------------------------------------------------
(* app/mappers/lms_task_mapper.py: short answers, text answers, dispatch   *)

\* a variant of IsRegexCell: some ';'-separated candidate starts with "re:"
IsRegexCellAnyCandidate(raw) ==
    \E c \in {Strip(p) : p \in {SplitOn(raw, 59)[i] : i \in 1..Len(SplitOn(raw, 59))}} :
        StartsWith(c, Str(<<"r", "e", ":">>))

\* raw.startswith("re:")
IsRegexCell(raw) == StartsWith(raw, Str(<<"r", "e", ":">>))

\* pattern = raw[3:].strip()
RegexPattern(raw) == Strip(Slice(raw, 4, Len(raw)))

\* a variant of DefaultScore that cuts the fraction off: int(x)
DefaultScoreTruncated(st) ==
    TruncateToInt(IF st = None THEN 100 ELSE st.default_points_short_answer)

\* default_score = int(round(getattr(settings, "default_points_short_answer", 1.0)))
DefaultScore(st) ==
    RoundToInt(IF st = None THEN 100 ELSE st.default_points_short_answer)

\* parts = [p.strip() for p in raw.split(";") if p.strip()]
AnswerParts(raw) == SelectNonEmpty(StripEach(SplitOn(raw, 59)))

\* accepted = [{"value": p, "score": default_score} for p in parts]
AcceptedAnswers(raw, default_score) ==
    [i \in 1..Len(AnswerParts(raw)) |->
        [value |-> AnswerParts(raw)[i], score |-> default_score]]

\* the tuple _build_short_answer_rules returns for the stripped cell raw
ShortAnswerRulesOf(raw, default_score) ==
    IF raw = <<>>
    THEN [short_answer |->
             [normalization |-> <<"trim", "lower", "collapse_spaces">>,
              accepted_answers |-> <<>>, use_regex |-> FALSE, regex |-> NoneStr],
          max_score |-> default_score, scoring_mode |-> "all_or_nothing",
          auto_check |-> FALSE, manual_review_required |-> TRUE]
    ELSE IF IsRegexCell(raw)
    THEN [short_answer |->
             [normalization |-> <<>>,
              accepted_answers |-> <<>>, use_regex |-> TRUE, regex |-> RegexPattern(raw)],
          max_score |-> default_score, scoring_mode |-> "all_or_nothing",
          auto_check |-> TRUE, manual_review_required |-> FALSE]
    ELSE [short_answer |->
             [normalization |-> <<"trim", "lower", "collapse_spaces">>,
              accepted_answers |-> AcceptedAnswers(raw, default_score),
              use_regex |-> FALSE, regex |-> NoneStr],
          max_score |-> default_score, scoring_mode |-> "all_or_nothing",
          auto_check |-> TRUE, manual_review_required |-> FALSE]

\* _build_short_answer_rules
BuildShortAnswerRules(r, st) == ShortAnswerRulesOf(Strip(r.correct_answer), DefaultScore(st))

\* a variant of ShortSolution that switches the automatic check off for
\* SA_COM
ShortSolutionManualOnly(sa, qtype) ==
    [max_score |-> sa.max_score,
     scoring_mode |-> sa.scoring_mode,
     auto_check |-> IF qtype = "SA_COM" THEN FALSE ELSE sa.auto_check,
     manual_review_required |-> IF qtype = "SA_COM" THEN TRUE ELSE sa.manual_review_required,
     correct_options |-> <<>>,
     partial_rules |-> <<>>,
     short_answer |-> sa.short_answer,
     text_answer |-> None,
     penalties |-> BuildPenalties]

\* the SolutionRules build_solution_rules makes of the short-answer tuple sa
ShortSolution(sa, qtype) ==
    [max_score |-> sa.max_score,
     scoring_mode |-> sa.scoring_mode,
     auto_check |-> sa.auto_check,
     manual_review_required |-> IF qtype = "SA_COM" THEN TRUE ELSE sa.manual_review_required,
     correct_options |-> <<>>,
     partial_rules |-> <<>>,
     short_answer |-> sa.short_answer,
     text_answer |-> None,
     penalties |-> BuildPenalties]

\* _build_solution_for_ta: manual review only, one rubric criterion
BuildSolutionForTA ==
    [max_score |-> 5,
     scoring_mode |-> "custom",
     auto_check |-> FALSE,
     manual_review_required |-> TRUE,
     correct_options |-> <<>>,
     partial_rules |-> <<>>,
     short_answer |-> None,
     text_answer |-> [auto_check |-> FALSE,
                      rubric |-> <<[id |-> "content", max_score |-> 5]>>],
     penalties |-> BuildPenalties]

\* the placeholder build_solution_rules returns for an unknown type
UnknownTypeSolution ==
    [max_score |-> 0,
     scoring_mode |-> "all_or_nothing",
     auto_check |-> FALSE,
     manual_review_required |-> TRUE,
     correct_options |-> <<>>,
     partial_rules |-> <<>>,
     short_answer |-> None,
     text_answer |-> None,
     penalties |-> BuildPenalties]

\* the outcome of the SC/MC branch of build_solution_rules
ChoiceBranch(c) ==
    IF c.ok THEN [ok |-> TRUE, solution |-> c.solution, warnings |-> <<>>]
    ELSE [ok |-> FALSE, err |-> c.err, warnings |-> <<>>]

\* build_solution_rules: the SolutionRules of the row for its type, with the
\* warnings it logs
BuildSolutionRules(r, qtype, st) ==
    IF qtype \in {"SC", "MC"} THEN ChoiceBranch(BuildSolutionForChoice(r, qtype))
    ELSE IF qtype \in {"SA", "SA_COM"}
    THEN [ok |-> TRUE, solution |-> ShortSolution(BuildShortAnswerRules(r, st), qtype),
          warnings |-> <<>>]
    ELSE IF qtype = "TA"
    THEN [ok |-> TRUE, solution |-> BuildSolutionForTA, warnings |-> <<>>]
    ELSE [ok |-> TRUE, solution |-> UnknownTypeSolution,
          warnings |-> <<"build_solution_rules: unknown type">>]

---------------------------------------------------------------------------
(* app/mappers/lms_task_mapper.py: difficulty and course lookup            *)

\* (x or "").strip() of a str or None
StripOrEmpty(x) == IF x = NoneStr THEN <<>> ELSE Strip(x)

\* the positions of the entries whose field f, stripped, equals name
StrippedMatches(table, f, name) ==
    {i \in 1..Len(table) : StripOrEmpty(table[i][f]) = name}

\* the positions the loop of map_difficulty_ru_to_lms_id stops at
DifficultyMatches(table, name) == StrippedMatches(table, "name_ru", name)

First(idx) == CHOOSE i \in idx : \A j \in idx : i <= j

\* the id returned when no name matches: "Easy => id=2"
DefaultDifficultyId == 2

\* what map_difficulty_ru_to_lms_id returns for the stripped label name
DifficultyOutcome(table, name) ==
    IF DifficultyMatches(table, name) # {}
    THEN [ok |-> TRUE, id |-> table[First(DifficultyMatches(table, name))].id,
          warnings |-> <<>>]
    ELSE [ok |-> TRUE, id |-> DefaultDifficultyId,
          warnings |-> <<"difficulty not matched, default difficulty_id used">>]

\* a variant of MapDifficulty that takes the default without a warning
MapDifficultySilently(r, meta_difficulties) ==
    [DifficultyOutcome(meta_difficulties, Strip(r.difficulty_ru)) EXCEPT !.warnings = <<>>]

\* map_difficulty_ru_to_lms_id
MapDifficulty(r, meta_difficulties) ==
    DifficultyOutcome(meta_difficulties, Strip(r.difficulty_ru))

\* titles = ", ".join(f"{c['id']}:{c['title']}" for c in meta_courses)
CourseTitles(meta_courses) ==
    JoinWith(<<44, 32>>,
             [i \in 1..Len(meta_courses) |->
                 IntToStr(meta_courses[i].id) \o <<58>> \o meta_courses[i].title])

\* a variant of CourseOutcome that falls back to the first course of any
\* non-empty table
CourseOutcomeFirstOfAny(meta_courses, code) ==
    IF code # <<>> /\ StrippedMatches(meta_courses, "course_uid", code) # {}
    THEN [ok |-> TRUE,
          id |-> meta_courses[First(StrippedMatches(meta_courses, "course_uid", code))].id]
    ELSE IF Len(meta_courses) >= 1
    THEN [ok |-> TRUE, id |-> meta_courses[1].id]
    ELSE [ok |-> FALSE, err |-> "ValueError", code |-> code,
          titles |-> CourseTitles(meta_courses)]

\* what map_quiz_title_to_course_id does with the stripped code
CourseOutcome(meta_courses, code) ==
    IF code # <<>> /\ StrippedMatches(meta_courses, "course_uid", code) # {}
    THEN [ok |-> TRUE,
          id |-> meta_courses[First(StrippedMatches(meta_courses, "course_uid", code))].id]
    ELSE IF Len(meta_courses) = 1
    THEN [ok |-> TRUE, id |-> meta_courses[1].id]
    ELSE [ok |-> FALSE, err |-> "ValueError", code |-> code,
          titles |-> CourseTitles(meta_courses)]

\* map_quiz_title_to_course_id
MapCourse(r, meta_courses) == CourseOutcome(meta_courses, Strip(r.course_code))

---------------------------------------------------------------------------
(* The PHP serialization codec, app/qsm/php_serialize.py.  A Python value  *)
(* is a record [kind, i, s, items]: kind is the name of its type, i the    *)
(* number of an int or a bool (True is 1) or the hundredths of a float, s  *)
(* the characters of a str, items the elements of a list or a tuple, or    *)
(* the <<key, value>> pairs of a dict in insertion order.                  *)

PyValue(kind, i, s, items) == [kind |-> kind, i |-> i, s |-> s, items |-> items]

PyNone == PyValue("NoneType", 0, <<>>, <<>>)

PyBool(b) == PyValue("bool", IF b THEN 1 ELSE 0, <<>>, <<>>)

PyInt(i) == PyValue("int", i, <<>>, <<>>)

PyFloat(hundredths) == PyValue("float", hundredths, <<>>, <<>>)

PyStr(s) == PyValue("str", 0, s, <<>>)

PyList(items) == PyValue("list", 0, <<>>, items)

PyDict(pairs) == PyValue("dict", 0, <<>>, pairs)

PyTuple(items) == PyValue("tuple", 0, <<>>, items)

Returned(text) == [ok |-> TRUE, text |-> text]

Raised(err) == [ok |-> FALSE, err |-> err]

\* a + b of two str results, where a is evaluated first and an exception of
\* either ends the evaluation
Plus(a, b) ==
    IF ~a.ok THEN a ELSE IF ~b.ok THEN b ELSE Returned(a.text \o b.text)

\* the bytes of one code point in UTF-8
Utf8Bytes(c) ==
    IF c < 128 THEN <<c>>
    ELSE IF c < 2048 THEN <<192 + (c \div 64), 128 + (c % 64)>>
    ELSE IF c < 65536
    THEN <<224 + (c \div 4096), 128 + ((c \div 64) % 64), 128 + (c % 64)>>
    ELSE <<240 + (c \div 262144), 128 + ((c \div 4096) % 64),
           128 + ((c \div 64) % 64), 128 + (c % 64)>>

\* a lone surrogate, which UTF-8 does not encode
IsSurrogate(c) == c >= 55296 /\ c <= 57343

\* s.encode("utf-8") of a str without surrogates
RECURSIVE EncodeUtf8(_)
EncodeUtf8(s) == IF s = <<>> THEN <<>> ELSE Utf8Bytes(Head(s)) \o EncodeUtf8(Tail(s))

\* the number of bytes of the character a lead byte starts
Utf8Width(lead) ==
    IF lead < 128 THEN 1 ELSE IF lead < 224 THEN 2 ELSE IF lead < 240 THEN 3 ELSE 4

\* the code point of the bytes b[1..Utf8Width(b[1])]
Utf8CodePoint(b) ==
    IF b[1] < 128 THEN b[1]
    ELSE IF b[1] < 224 THEN (b[1] - 192) * 64 + (b[2] - 128)
    ELSE IF b[1] < 240
    THEN (b[1] - 224) * 4096 + (b[2] - 128) * 64 + (b[3] - 128)
    ELSE (b[1] - 240) * 262144 + (b[2] - 128) * 4096 + (b[3] - 128) * 64 + (b[4] - 128)

\* b.decode("utf-8") of well-formed bytes
RECURSIVE DecodeUtf8(_)
DecodeUtf8(b) ==
    IF b = <<>> THEN <<>>
    ELSE <<Utf8CodePoint(b)>> \o DecodeUtf8(SubSeq(b, Utf8Width(b[1]) + 1, Len(b)))

\* a variant of _php_str that counts the characters of s
PhpStrCountingCharacters(s) ==
    IF \E j \in 1..Len(s) : IsSurrogate(s[j])
    THEN Raised("UnicodeEncodeError")
    ELSE Returned(Str(<<"s", ":">>) \o NatToStr(Len(s)) \o Str(<<":", "\"">>)
                  \o DecodeUtf8(EncodeUtf8(s)) \o Str(<<"\"", ";">>))

\* _php_str: b = s.encode("utf-8"); f's:{len(b)}:"{b.decode("utf-8")}";'
_php_str(s) ==
    IF \E j \in 1..Len(s) : IsSurrogate(s[j])
    THEN Raised("UnicodeEncodeError")
    ELSE Returned(Str(<<"s", ":">>) \o NatToStr(Len(EncodeUtf8(s))) \o Str(<<":", "\"">>)
                  \o DecodeUtf8(EncodeUtf8(s)) \o Str(<<"\"", ";">>))

\* the digits after the point in repr() of a float of h hundredths, 0 <= h < 100
FractionDigits(h) ==
    IF h % 10 = 0 THEN <<48 + (h \div 10)>> ELSE <<48 + (h \div 10), 48 + (h % 10)>>

\* repr() of a float given in hundredths
FloatRepr(h) ==
    IF h < 0
    THEN <<45>> \o NatToStr((0 - h) \div 100) \o <<46>> \o FractionDigits((0 - h) % 100)
    ELSE NatToStr(h \div 100) \o <<46>> \o FractionDigits(h % 100)

\* str(v), which an f-string field and _php_key apply
PyStrOf(v) ==
    IF v.kind = "NoneType" THEN <<78, 111, 110, 101>>
    ELSE IF v.kind = "bool"
    THEN (IF v.i = 1 THEN <<84, 114, 117, 101>> ELSE <<70, 97, 108, 115, 101>>)
    ELSE IF v.kind = "int" THEN IntToStr(v.i)
    ELSE IF v.kind = "float" THEN FloatRepr(v.i)
    ELSE IF v.kind = "str" THEN v.s
    ELSE Str(<<"(", ")">>)

\* _php_int: f"i:{i};"
_php_int(v) == Returned(Str(<<"i", ":">>) \o PyStrOf(v) \o Str(<<";">>))

\* a variant of _php_float that always writes int(d)
PhpFloatAsInt(v) ==
    Returned(Str(<<"d", ":">>) \o IntToStr(IF v.i >= 0 THEN v.i \div 100 ELSE 0 - ((0 - v.i) \div 100)) \o Str(<<";">>))

\* _php_float: the integer when the float is one, else the float's repr
_php_float(v) ==
    IF v.i % 100 = 0
    THEN Returned(Str(<<"d", ":">>) \o IntToStr(v.i \div 100) \o Str(<<";">>))
    ELSE Returned(Str(<<"d", ":">>) \o FloatRepr(v.i) \o Str(<<";">>))

_php_bool(v) == Returned(Str(<<"b", ":">>) \o (IF v.i # 0 THEN <<49>> ELSE <<48>>) \o Str(<<";">>))

_php_null == Returned(Str(<<"N", ";">>))

\* _php_key: isinstance(k, int) holds of a bool too
_php_key(k) ==
    IF k.kind \in {"int", "bool"} THEN _php_int(k) ELSE _php_str(PyStrOf(k))

RECURSIVE _php_val(_), _php_array(_), PhpItemsFrom(_, _)

\* a variant of PhpItemKey that numbers the elements of a list from 1
PhpItemKeyFromOne(obj, j) == IF obj.kind = "list" THEN PyInt(j) ELSE obj.items[j][1]

\* the key of the j-th item of a list or a dict: enumerate() counts from 0
PhpItemKey(obj, j) == IF obj.kind = "list" THEN PyInt(j - 1) ELSE obj.items[j][1]

PhpItemValue(obj, j) == IF obj.kind = "list" THEN obj.items[j] ELSE obj.items[j][2]

\* ''.join(items) of the items from the j-th on, each _php_key(k) + _php_val(v)
PhpItemsFrom(obj, j) ==
    IF j > Len(obj.items) THEN Returned(<<>>)
    ELSE Plus(Plus(_php_key(PhpItemKey(obj, j)), _php_val(PhpItemValue(obj, j))),
              PhpItemsFrom(obj, j + 1))

\* f"a:{len(obj)}:{{{''.join(items)}}}"
PhpArrayText(obj, joined) ==
    IF ~joined.ok THEN joined
    ELSE Returned(Str(<<"a", ":">>) \o NatToStr(Len(obj.items)) \o Str(<<":", "{">>)
                  \o joined.text \o Str(<<"}">>))

_php_array(obj) ==
    IF obj.kind \in {"list", "dict"}
    THEN PhpArrayText(obj, PhpItemsFrom(obj, 1))
    ELSE Raised("TypeError")

_php_val(v) ==
    IF v.kind = "NoneType" THEN _php_null
    ELSE IF v.kind = "bool" THEN _php_bool(v)
    ELSE IF v.kind = "int" THEN _php_int(v)
    ELSE IF v.kind = "float" THEN _php_float(v)
    ELSE IF v.kind = "str" THEN _php_str(v.s)
    ELSE IF v.kind \in {"list", "dict"} THEN _php_array(v)
    ELSE Raised("TypeError")

---------------------------------------------------------------------------
(* The rows, tables and values the specifications draw.                    *)

MaxOptions == 2
MaxTokens == 2
MaxEntries == 2

SeqsUpTo(S, n) == UNION {[1..k -> S] : k \in 0..n}

EmptyRow ==
    [question_code |-> <<>>, course_code |-> <<>>, text |-> <<>>,
     variants_and_points |-> <<>>, correct_answer |-> <<>>, input_link |-> <<>>,
     qtype_code |-> <<>>, quiz_title |-> <<>>, difficulty_ru |-> <<>>,
     hint |-> <<>>, video_url |-> <<>>]

EmptyMeta == [courses |-> <<>>, difficulties |-> <<>>]

\* Settings() with the defaults of app/config.py; floats in hundredths
DefaultSettings ==
    [default_points_short_answer |-> 1000,
     prepend_input_link |-> TRUE,
     input_link_label |->    \* the Cyrillic label of config.py, as code points
        <<1042, 1093, 1086, 1076, 1085, 1099, 1077,
          32, 1076, 1072, 1085, 1085, 1099, 1077>>,
     lms_import_dry_run |-> FALSE]

NoResult == [op |-> "none"]

\* rows for the scoring arithmetic: option texts "a", " B"; right-hand sides
\* of "||": none, 0,5 (decimal comma), 1.0, 2; answer tokens "a", "b "
ScoringTexts == {Str(<<"a">>), Str(<<" ", "B">>)}

PointCells ==
    {<<>>, Str(<<" ", "0", ",", "5">>), Str(<<"1", ".", "0">>), Str(<<"2">>)}

ScoringLines == {t \o Str(<<"|", "|">>) \o p : t \in ScoringTexts, p \in PointCells}

ScoringTokens == {Str(<<"a">>), Str(<<"b", " ">>)}

\* rows for the text matching: option texts "a", " A", "a \tB", "b;", all
\* worth 2 points; answer tokens "A ", "a b", "b"
MatchingTexts ==
    {Str(<<"a">>), Str(<<" ", "A">>), Str(<<"a", " ", "\t", "B">>), Str(<<"b", ";">>)}

MatchingLines == {t \o Str(<<"|", "|", "2">>) : t \in MatchingTexts}

MatchingTokens == {Str(<<"A", " ">>), Str(<<"a", " ", "b">>), Str(<<"b">>)}

BlocksOf(lines) == {JoinWith(Str(<<"\n">>), ls) : ls \in SeqsUpTo(lines, MaxOptions)}

CellsOf(tokens) == {JoinWith(Str(<<";">>), ts) : ts \in SeqsUpTo(tokens, MaxTokens)}

---------------------------------------------------------------------------
(* The choice solution builder on one SC/MC row.                           *)

InitChoiceRow(blocks, cells) ==
    /\ \E vb \in blocks, cc \in cells :
          row = [EmptyRow EXCEPT !.variants_and_points = vb, !.correct_answer = cc]
    /\ meta = EmptyMeta
    /\ settings = DefaultSettings
    /\ value = None
    /\ result = NoResult
    /\ log = <<>>

InitChoice == InitChoiceRow(BlocksOf(ScoringLines), CellsOf(ScoringTokens))

InitMatch == InitChoiceRow(BlocksOf(MatchingLines), CellsOf(MatchingTokens))

\* a call of _build_solution_for_choice(row, qtype), qtype in (SC, MC)
CallBuildSolutionForChoice ==
    /\ result.op = "none"
    /\ \E qtype \in {"SC", "MC"} :
          result' = [op |-> "build_solution_for_choice", qtype |-> qtype,
                     out |-> BuildSolutionForChoice(row, qtype)]
    /\ UNCHANGED <<row, meta, settings, value, log>>

NextChoice == CallBuildSolutionForChoice

\* rows that vary the point values
SpecChoice == InitChoice /\ [][NextChoice]_vars

\* rows that vary the texts
SpecMatch == InitMatch /\ [][NextChoice]_vars

---------------------------------------------------------------------------
(* build_solution_rules on one SA/SA_COM row.                              *)

\* candidates of a short-answer cell: "abc", " re:^[0-9]+$", "re:(unclosed",
\* "re: b "
ShortCandidates ==
    {Str(<<"a", "b", "c">>),
     Str(<<" ", "r", "e", ":", "^", "[", "0", "-", "9", "]", "+", "$">>),
     Str(<<"r", "e", ":", "(", "u", "n", "c", "l", "o", "s", "e", "d">>),
     Str(<<"r", "e", ":", " ", "b", " ">>)}

\* Settings with default_points_short_answer 10.0 (the default), 2.5, 1.5, or
\* None
ShortSettings ==
    {None, DefaultSettings, [DefaultSettings EXCEPT !.default_points_short_answer = 250],
     [DefaultSettings EXCEPT !.default_points_short_answer = 150]}

InitShort ==
    /\ \E cc \in CellsOf(ShortCandidates) : row = [EmptyRow EXCEPT !.correct_answer = cc]
    /\ meta = EmptyMeta
    /\ settings \in ShortSettings
    /\ value = None
    /\ result = NoResult
    /\ log = <<>>

\* a call of build_solution_rules(row, qtype, settings), qtype in (SA, SA_COM)
CallBuildSolutionRulesShort ==
    /\ result.op = "none"
    /\ \E qtype \in {"SA", "SA_COM"} :
          /\ result' = [op |-> "build_solution_rules", qtype |-> qtype,
                        out |-> BuildSolutionRules(row, qtype, settings)]
          /\ log' = log \o BuildSolutionRules(row, qtype, settings).warnings
    /\ UNCHANGED <<row, meta, settings, value>>

NextShort == CallBuildSolutionRulesShort

SpecShort == InitShort /\ [][NextShort]_vars

---------------------------------------------------------------------------
(* The difficulty and course lookups on one row and one pair of tables.    *)

\* course codes of a row: none, "c1", "c9"
CourseCodes == {<<>>, Str(<<"c", "1">>), Str(<<"c", "9">>)}

\* courses of the table: uid "c1", uid " c1 " and a course without uid
CourseEntries ==
    {[id |-> 11, course_uid |-> Str(<<"c", "1">>), title |-> Str(<<"A">>)],
     [id |-> 12, course_uid |-> Str(<<" ", "c", "1", " ">>), title |-> Str(<<"B">>)],
     [id |-> 13, course_uid |-> NoneStr, title |-> Str(<<"C">>)]}

\* difficulty labels of a row: "Ab", " ab", "x"
DifficultyLabels == {Str(<<"A", "b">>), Str(<<" ", "a", "b">>), Str(<<"x">>)}

\* difficulties of the table: "ab" (code Easy), " Ab " (code Hard), "c"
DifficultyEntries ==
    {[id |-> 5, name_ru |-> Str(<<"a", "b">>), code |-> Str(<<"E", "a", "s", "y">>)],
     [id |-> 7, name_ru |-> Str(<<" ", "A", "b", " ">>), code |-> Str(<<"H", "a", "r", "d">>)],
     [id |-> 9, name_ru |-> Str(<<"c">>), code |-> NoneStr]}

InitResolve ==
    /\ \E cc \in CourseCodes, dl \in DifficultyLabels :
          row = [EmptyRow EXCEPT !.course_code = cc, !.difficulty_ru = dl]
    /\ \E cs \in SeqsUpTo(CourseEntries, MaxEntries),
          ds \in SeqsUpTo(DifficultyEntries, MaxEntries) :
          meta = [courses |-> cs, difficulties |-> ds]
    /\ settings = DefaultSettings
    /\ value = None
    /\ result = NoResult
    /\ log = <<>>

\* a call of map_difficulty_ru_to_lms_id(row, meta["difficulties"])
CallMapDifficulty ==
    /\ result.op = "none"
    /\ result' = [op |-> "map_difficulty", out |-> MapDifficulty(row, meta.difficulties)]
    /\ log' = log \o MapDifficulty(row, meta.difficulties).warnings
    /\ UNCHANGED <<row, meta, settings, value>>

\* a call of map_quiz_title_to_course_id(row, meta["courses"])
CallMapCourse ==
    /\ result.op = "none"
    /\ result' = [op |-> "map_course", out |-> MapCourse(row, meta.courses)]
    /\ UNCHANGED <<row, meta, settings, value, log>>

NextResolve == CallMapDifficulty \/ CallMapCourse

SpecResolve == InitResolve /\ [][NextResolve]_vars

---------------------------------------------------------------------------
(* The codec applied to a value: SpecCodec.                                *)

MaxItems == 2

\* "", "ab", four 2-byte Cyrillic letters, a 3-byte and a 4-byte character,
\* and a mix of widths
CodecStrings ==
    {<<>>, Str(<<"a", "b">>), <<1090, 1077, 1089, 1090>>, <<8364>>, <<128512>>,
     <<97, 1090, 8364>>}

CodecLeaves ==
    {PyNone, PyBool(TRUE), PyBool(FALSE), PyInt(0), PyInt(-7), PyFloat(100),
     PyFloat(50), PyTuple(<<>>)}
        \cup {PyStr(t) : t \in CodecStrings}

CodecKeys ==
    {PyInt(1), PyBool(TRUE), PyFloat(150), PyStr(Str(<<"a", "b">>)),
     PyStr(<<1090, 1077, 1089, 1090>>), PyStr(<<128512>>)}

\* the values of a dict and the elements of a list: leaves and arrays
CodecDictValues ==
    {PyStr(<<1090, 1077, 1089, 1090>>), PyStr(<<8364>>), PyInt(3),
     PyList(<<PyStr(<<1090>>)>>)}

CodecElements ==
    {PyNone, PyBool(TRUE), PyInt(-7), PyFloat(50), PyTuple(<<>>),
     PyStr(Str(<<"a", "b">>)), PyStr(<<1090, 1077, 1089, 1090>>), PyStr(<<128512>>),
     PyList(<<PyStr(<<8364>>)>>),
     PyDict(<< <<PyStr(<<1090>>), PyStr(<<1077>>)>> >>)}

\* the hundredths of a number
Hundredths(k) == IF k.kind = "float" THEN k.i ELSE 100 * k.i

\* k1 == k2 of two keys in Python: True == 1 == 1.0
SameKey(k1, k2) ==
    IF k1.kind \in {"int", "bool", "float"} /\ k2.kind \in {"int", "bool", "float"}
    THEN Hundredths(k1) = Hundredths(k2)
    ELSE k1 = k2

\* the keys of a dict are pairwise different
IsDict(pairs) ==
    \A j1, j2 \in 1..Len(pairs) : j1 # j2 => ~SameKey(pairs[j1][1], pairs[j2][1])

\* arrays nested three deep
CodecDeep ==
    {PyList(<<PyDict(<< <<PyInt(5), PyList(<<PyStr(<<1090, 1077>>), PyNone>>)>> >>)>>),
     PyDict(<< <<PyStr(Str(<<"a">>)), PyList(<<PyList(<<PyFloat(25)>>), PyBool(FALSE)>>)>>,
               <<PyInt(-2), PyDict(<< <<PyStr(<<8364>>), PyInt(7)>> >>)>> >>),
     PyList(<<PyStr(Str(<<"a">>)), PyList(<<PyList(<<PyTuple(<<>>)>>)>>)>>),
     PyList(<<PyDict(<< <<PyTuple(<<>>), PyInt(1)>> >>)>>),
     PyDict(<< <<PyInt(1), PyDict(<< <<PyNone, PyBool(TRUE)>> >>)>> >>)}

CodecValues ==
    CodecLeaves \cup CodecDeep
        \cup {PyList(items) : items \in SeqsUpTo(CodecElements, MaxItems)}
        \cup {PyDict(pairs) : pairs \in
                 {ps \in SeqsUpTo(CodecKeys \X CodecDictValues, MaxItems) : IsDict(ps)}}

InitCodec ==
    /\ row = EmptyRow
    /\ meta = EmptyMeta
    /\ settings = DefaultSettings
    /\ value \in CodecValues
    /\ result = NoResult
    /\ log = <<>>

\* a call of _php_val(value)
CallPhpVal ==
    /\ result.op = "none"
    /\ result' = [op |-> "_php_val", out |-> _php_val(value)]
    /\ UNCHANGED <<row, meta, settings, value, log>>

\* a call of _php_array(value), as the builders of app/qsm/builders.py make
CallPhpArray ==
    /\ result.op = "none"
    /\ result' = [op |-> "_php_array", out |-> _php_array(value)]
    /\ UNCHANGED <<row, meta, settings, value, log>>

NextCodec == CallPhpVal \/ CallPhpArray

SpecCodec == InitCodec /\ [][NextCodec]_vars

---------------------------------------------------------------------------
(* Claims about the choice solution builder: C1..C3 under SpecChoice, C4   *)
(* under SpecMatch.                                                        *)

ChoiceDone == result.op = "build_solution_for_choice" /\ result.out.ok

\* the (text, points) pairs the answer parser declares for the row
Declared == parse_variants_block(row.variants_and_points).val

\* the options as _build_solution_for_choice leaves them
Effective == result.out.options

CorrectIndexes == {i \in 1..Len(Effective) : Effective[i].is_correct}

RECURSIVE SumAt(_, _)
SumAt(opts, idx) ==
    IF idx = {} THEN 0
    ELSE LET i == CHOOSE j \in idx : TRUE
         IN  opts[i].points + SumAt(opts, idx \ {i})

\* C1 (as claimed): every option marked correct whose declared point value is
\* exactly zero has the effective point value 1, whatever the other options
\* of the row declare.
C1_ZeroCorrectAlwaysOne ==
    ChoiceDone =>
        \A i \in CorrectIndexes : Declared[i].points = 0 => Effective[i].points = 100

\* C1 (amended): an option marked correct whose declared point value is zero
\* has the effective point value 1 when no option of the row declares a
\* positive point value, and keeps the value 0 when some option does.
C1_ZeroCorrectOneIffNoPositive ==
    ChoiceDone =>
        \A i \in CorrectIndexes :
            Declared[i].points = 0 =>
                Effective[i].points =
                    IF \E j \in 1..Len(Declared) : Declared[j].points > 0 THEN 0 ELSE 100

\* C1 witness: a built row with one correct option declared 2 and another
\* correct option declared 0.
C1_Witness ==
    /\ ChoiceDone
    /\ \E i, j \in CorrectIndexes : Declared[i].points = 200 /\ Declared[j].points = 0

\* C2: when no option of the row declares a non-zero point value and at least
\* one option is marked correct, every correct option's effective point value
\* is 1 and max_score is the number of options marked correct.
C2_UnpointedRowCountsCorrect ==
    (/\ ChoiceDone
     /\ \A j \in 1..Len(Declared) : Declared[j].points = 0
     /\ CorrectIndexes # {})
    => /\ \A i \in CorrectIndexes : Effective[i].points = 100
       /\ result.out.max_score = Cardinality(CorrectIndexes)
       /\ result.out.solution.max_score = Cardinality(CorrectIndexes)

\* C2 witness: a built row without point values and with two correct options.
C2_Witness ==
    /\ ChoiceDone
    /\ \A j \in 1..Len(Declared) : Declared[j].points = 0
    /\ Cardinality(CorrectIndexes) = 2
    /\ result.out.max_score = 2

\* C3 (as claimed): max_score equals the sum of the effective point values of
\* the options marked correct, fractional sums included.
C3_MaxScoreIsSum ==
    ChoiceDone => 100 * result.out.max_score = SumAt(Effective, CorrectIndexes)

\* C3 (amended): max_score is the integer nearest to the sum of the effective
\* point values of the options marked correct (of no other option), a sum
\* half-way between two integers going to the even one; it equals the sum
\* whenever the sum is integral.
C3_MaxScoreIsRoundedSum ==
    ChoiceDone =>
        LET s == SumAt(Effective, CorrectIndexes)
            d == 100 * result.out.max_score - s
        IN  /\ d \in -50..50
            /\ d \in {-50, 50} => result.out.max_score % 2 = 0
            /\ result.out.solution.max_score = result.out.max_score

\* C3 witness: a built row whose only correct option is worth 0.5, next to an
\* incorrect option that carries points.
C3_Witness ==
    /\ ChoiceDone
    /\ \E i \in CorrectIndexes : CorrectIndexes = {i} /\ Effective[i].points = 50
    /\ \E j \in 1..Len(Effective) : ~Effective[j].is_correct /\ Effective[j].points > 0
    /\ result.out.max_score = 0

\* Rewritings of a cell that change only letter case, only the amount or
\* kind of blanks, or only the order of its tokens or lines.
UpperCased(s) == [i \in 1..Len(s) |-> IF s[i] \in 97..122 THEN s[i] - 32 ELSE s[i]]

LowerCased(s) == [i \in 1..Len(s) |-> IF s[i] \in 65..90 THEN s[i] + 32 ELSE s[i]]

Tabbed(s) == [i \in 1..Len(s) |-> IF s[i] = 32 THEN 9 ELSE s[i]]

RECURSIVE Widened(_)
Widened(s) ==
    IF s = <<>> THEN <<>>
    ELSE (IF Head(s) \in {9, 32} THEN <<32, Head(s), 9>> ELSE <<Head(s)>>)
         \o Widened(Tail(s))

Reversed(q) == [i \in 1..Len(q) |-> q[Len(q) + 1 - i]]

TokensReversed(cell) == JoinWith(<<59>>, Reversed(SplitOn(cell, 59)))

LinesReversed(block) == JoinWith(<<10>>, Reversed(SplitOn(block, 10)))

\* the is_correct flags _parse_choice_options gives the options of a row
\* with the given variants block and correct-answer cell
CorrectFlags(block, cell) ==
    LET pco == ParseChoiceOptions(
                   [row EXCEPT !.variants_and_points = block, !.correct_answer = cell])
    IN  [i \in 1..Len(pco.options) |-> pco.options[i].is_correct]

BlankRewritings(s) == {Tabbed(s), Widened(s)}

CaseRewritings(s) == {UpperCased(s), LowerCased(s)}

\* C4: an option is marked correct iff its normalized text equals the
\* normalized form of some token of the correct-answer cell, and the options
\* marked correct do not change when the letter case or the blanks of either
\* cell change, when the tokens of the correct-answer cell are reordered, or
\* when the options are reordered (an option keeps its mark at its new place).
C4_CorrectByNormalizedText ==
    ChoiceDone =>
        LET block == row.variants_and_points
            cell  == row.correct_answer
            toks  == parse_correct_list(cell)
            flags == [i \in 1..Len(Effective) |-> Effective[i].is_correct]
        IN  /\ Len(flags) = Len(Declared)
            /\ \A i \in 1..Len(flags) :
                  flags[i] <=> \E k \in 1..Len(toks) :
                                  normalize(Declared[i].text) = normalize(toks[k])
            /\ \A b \in CaseRewritings(block) \cup BlankRewritings(block) :
                  CorrectFlags(b, cell) = flags
            /\ \A c \in CaseRewritings(cell) \cup BlankRewritings(cell) :
                  CorrectFlags(block, c) = flags
            /\ CorrectFlags(block, TokensReversed(cell)) = flags
            /\ CorrectFlags(LinesReversed(block), cell) = Reversed(flags)

\* C4 witness: a built row where the option typed "a \tB" is marked correct
\* by the token "a b", which is not the first token of the cell, next to an
\* option that is not marked.
C4_Witness ==
    /\ ChoiceDone
    /\ \E i \in CorrectIndexes :
          /\ Declared[i].text = Str(<<"a", " ", "\t", "B">>)
          /\ Effective[i].text = Str(<<"a", " ", "b">>)
    /\ Len(parse_correct_list(row.correct_answer)) = 2
    /\ parse_correct_list(row.correct_answer)[2] = Str(<<"a", " ", "b">>)
    /\ \E j \in 1..Len(Effective) : ~Effective[j].is_correct

---------------------------------------------------------------------------
(* Claims about the short-answer rules, checked under SpecShort.           *)

ShortDone ==
    result.op = "build_solution_rules" /\ result.qtype \in {"SA", "SA_COM"} /\ result.out.ok

ShortAnswer == result.out.solution.short_answer

\* the candidates of the correct-answer cell, as the answer parser splits it
Candidates == parse_correct_list(row.correct_answer)

HasRePrefix(c) == StartsWith(c, Str(<<"r", "e", ":">>))

PatternOf(c) == Strip(Slice(c, 4, Len(c)))

\* the patterns emitted as regex rules, and the values emitted as exact matches
EmittedRegexes == IF ShortAnswer.use_regex THEN {ShortAnswer.regex} ELSE {}

ExactValues ==
    [i \in 1..Len(ShortAnswer.accepted_answers) |-> ShortAnswer.accepted_answers[i].value]

IsExactValue(c) == \E i \in 1..Len(ExactValues) : ExactValues[i] = c

\* a pattern with more "(" than ")" is no valid regex
Count(s, ch) == Cardinality({i \in 1..Len(s) : s[i] = ch})

UnclosedGroup(pat) == Count(pat, 40) > Count(pat, 41)

\* C5 (as claimed): each candidate is classified on its own: a candidate
\* prefixed "re:" (with a valid pattern) is emitted as a regex rule with the
\* prefix stripped, wherever it stands in the cell, and every other candidate
\* is emitted as an exact-match accepted answer.
C5_EachCandidateClassified ==
    ShortDone =>
        \A k \in 1..Len(Candidates) :
            IF HasRePrefix(Candidates[k])
            THEN UnclosedGroup(PatternOf(Candidates[k]))
                 \/ (PatternOf(Candidates[k]) \in EmittedRegexes
                     /\ ~IsExactValue(Candidates[k]))
            ELSE IsExactValue(Candidates[k])

\* C5 (amended): the cell is classified as a whole.  If the trimmed cell
\* starts with "re:", the rules carry one regex whose pattern is the rest of
\* the cell, trimmed and not split on ';', and no accepted answer.  Otherwise
\* every candidate of the cell, in order, is an exact-match accepted answer,
\* also a candidate that starts with "re:", and no regex is emitted.
C5_CellClassifiedAsWhole ==
    ShortDone =>
        IF HasRePrefix(Strip(row.correct_answer))
        THEN /\ ShortAnswer.use_regex
             /\ ShortAnswer.regex = PatternOf(Strip(row.correct_answer))
             /\ ShortAnswer.accepted_answers = <<>>
        ELSE /\ ~ShortAnswer.use_regex
             /\ ShortAnswer.regex = NoneStr
             /\ ExactValues = Candidates

\* C5 witness: the built rules of the cell 'abc; re:^[0-9]+$', whose second
\* candidate is emitted as an exact value.
C5_Witness ==
    /\ ShortDone
    /\ Candidates = <<Str(<<"a", "b", "c">>),
                      Str(<<"r", "e", ":", "^", "[", "0", "-", "9", "]", "+", "$">>)>>
    /\ ExactValues = Candidates
    /\ ~ShortAnswer.use_regex

\* C6 (as claimed): a candidate whose "re:" pattern is no valid regex is
\* dropped, nothing is emitted for it, and a warning is recorded; the cell
\* 're:(unclosed' yields no accepted answer, no regex rule and one warning.
C6_InvalidRegexDropped ==
    ShortDone =>
        /\ \A k \in 1..Len(Candidates) :
              (HasRePrefix(Candidates[k]) /\ UnclosedGroup(PatternOf(Candidates[k])))
              => /\ PatternOf(Candidates[k]) \notin EmittedRegexes
                 /\ ~IsExactValue(Candidates[k])
                 /\ Len(log) >= 1
        /\ row.correct_answer = Str(<<"r", "e", ":", "(", "u", "n", "c", "l", "o", "s", "e", "d">>)
           => /\ ShortAnswer.accepted_answers = <<>>
              /\ ~ShortAnswer.use_regex
              /\ Len(log) = 1

---------------------------------------------------------------------------
(* Claims about the course and difficulty lookups, checked under           *)
(* SpecResolve.                                                            *)

CourseDone == result.op = "map_course"

DifficultyDone == result.op = "map_difficulty"

\* s occurs in t as a contiguous part
Occurs(s, t) == \E i \in 1..(Len(t) - Len(s) + 1) : SubSeq(t, i, i + Len(s) - 1) = s

\* the courses whose external code the row's course code matches: equal
\* after trimming; an empty course code matches no course
MatchingCourses ==
    {i \in 1..Len(meta.courses) :
        /\ Strip(row.course_code) # <<>>
        /\ meta.courses[i].course_uid # NoneStr
        /\ Strip(meta.courses[i].course_uid) = Strip(row.course_code)}

\* C7: when the row's course code matches no course (an empty code matches
\* none), a table of exactly one course gives that course's id, and a table
\* of more than one course gives an error that names the code and lists every
\* candidate course; when some course matches, the (first) matching course's
\* id is returned whatever the size of the table.
C7_CourseResolution ==
    CourseDone =>
        IF MatchingCourses # {}
        THEN /\ result.out.ok
             /\ result.out.id = meta.courses[First(MatchingCourses)].id
        ELSE /\ Len(meta.courses) = 1 =>
                  result.out.ok /\ result.out.id = meta.courses[1].id
             /\ Len(meta.courses) > 1 =>
                  /\ ~result.out.ok
                  /\ result.out.code = Strip(row.course_code)
                  /\ \A i \in 1..Len(meta.courses) :
                        Occurs(IntToStr(meta.courses[i].id) \o <<58>> \o meta.courses[i].title,
                               result.out.titles)

\* C7 witness: an unmatched, non-empty code against a table of two courses
\* failed with both candidates listed.
C7_Witness ==
    /\ CourseDone
    /\ row.course_code = Str(<<"c", "9">>)
    /\ Len(meta.courses) = 2
    /\ ~result.out.ok
    /\ result.out.code = Str(<<"c", "9">>)
    /\ Occurs(Str(<<"1", "1", ":", "A">>), result.out.titles)

\* the difficulties whose name equals the label once both are trimmed and
\* lower-cased, and those whose name equals it once both are trimmed
NamesEqualIgnoringCase ==
    {i \in 1..Len(meta.difficulties) :
        Lower(Strip(meta.difficulties[i].name_ru)) = Lower(Strip(row.difficulty_ru))}

NamesEqual ==
    {i \in 1..Len(meta.difficulties) :
        Strip(meta.difficulties[i].name_ru) = Strip(row.difficulty_ru)}

\* C8: the label is matched against the names case-insensitively after
\* trimming: a label that equals an entry's name up to letter case and
\* surrounding whitespace resolves to the id of such an entry, not to the
\* default.
C8_MatchIgnoresCase ==
    DifficultyDone =>
        (NamesEqualIgnoringCase # {} =>
            \E i \in NamesEqualIgnoringCase : result.out.id = meta.difficulties[i].id)

\* the entries whose code is the default label, "Easy"
DefaultCodeEntries ==
    {i \in 1..Len(meta.difficulties) :
        meta.difficulties[i].code = Str(<<"E", "a", "s", "y">>)}

\* C9 (as claimed): the lookup always returns an id; when no name matches
\* (not even ignoring case) and an entry has the default code, that entry's
\* id is returned, and only a table without such an entry gives the
\* hard-coded id; a warning is recorded whenever a fallback is used.
C9_FallbackThroughDefaultCode ==
    DifficultyDone =>
        /\ result.out.ok
        /\ NamesEqualIgnoringCase = {} =>
              /\ result.out.id = IF DefaultCodeEntries # {}
                                 THEN meta.difficulties[First(DefaultCodeEntries)].id
                                 ELSE 2
              /\ Len(log) >= 1

\* C9 (amended): the lookup never fails, for every label and every table,
\* the empty one included: it returns the id of a name match, and otherwise
\* the hard-coded default id 2; there is no step by code, so an entry with
\* the default code is not used; a warning is recorded exactly when the
\* default is returned for lack of a match.
C9_FallbackIsHardCodedDefault ==
    DifficultyDone =>
        /\ result.out.ok
        /\ result.out.id \in Int
        /\ NamesEqual # {} => log = <<>> /\ result.out.id = meta.difficulties[First(NamesEqual)].id
        /\ NamesEqual = {} => Len(log) = 1 /\ result.out.id = 2

\* C9 witness: no name matches, the table holds an entry with the default
\* code whose id is 5, and the lookup returned 2 with one warning.
C9_Witness ==
    /\ DifficultyDone
    /\ NamesEqualIgnoringCase = {}
    /\ \E i \in DefaultCodeEntries : meta.difficulties[i].id = 5
    /\ result.out.id = 2
    /\ Len(log) = 1

---------------------------------------------------------------------------
(* Claims about the serialization codec, checked under SpecCodec.          *)

CodecDone == result.op \in {"_php_val", "_php_array"}

\* the number of bytes UTF-8 takes for one character, by its range
BytesOfCharacter(c) ==
    IF c <= 127 THEN 1 ELSE IF c <= 2047 THEN 2 ELSE IF c <= 65535 THEN 3 ELSE 4

RECURSIVE BytesOfString(_)
BytesOfString(s) ==
    IF s = <<>> THEN 0 ELSE BytesOfCharacter(Head(s)) + BytesOfString(Tail(s))

\* s:<n>:"<payload>"; with n the number of UTF-8 bytes of the payload
StringTag(s) ==
    <<115, 58>> \o NatToStr(BytesOfString(s)) \o <<58, 34>> \o s \o <<34, 59>>

\* the strings among the values and among the keys of an array, and the
\* arrays among its values
StringValuesOf(obj) ==
    IF obj.kind = "list"
    THEN {obj.items[j].s : j \in {k \in 1..Len(obj.items) : obj.items[k].kind = "str"}}
    ELSE IF obj.kind = "dict"
    THEN {obj.items[j][2].s : j \in {k \in 1..Len(obj.items) : obj.items[k][2].kind = "str"}}
    ELSE {}

StringKeysOf(obj) ==
    IF obj.kind = "dict"
    THEN {obj.items[j][1].s : j \in {k \in 1..Len(obj.items) : obj.items[k][1].kind = "str"}}
    ELSE {}

ArraysOf(obj) ==
    IF obj.kind = "list"
    THEN {obj.items[j] : j \in {k \in 1..Len(obj.items) : obj.items[k].kind \in {"list", "dict"}}}
    ELSE IF obj.kind = "dict"
    THEN {obj.items[j][2] : j \in {k \in 1..Len(obj.items) : obj.items[k][2].kind \in {"list", "dict"}}}
    ELSE {}

\* the strings of an array and of the arrays it holds
StringsWithin(obj) ==
    StringValuesOf(obj) \cup StringKeysOf(obj)
        \cup UNION {StringValuesOf(a) \cup StringKeysOf(a) : a \in ArraysOf(obj)}

\* C10: every string value and every string key of an array is emitted as
\* s:<n>:"<payload>"; where n is the number of UTF-8 bytes of the payload, not
\* its number of characters: a string handed to the codec is encoded as
\* exactly that, an array of one string (a list, or a dict with a string
\* key) is encoded as the array frame around exactly that, and the encoding
\* of any array holds that text for each string among its keys and values.
C10_StringTagCountsBytes ==
    CodecDone =>
        /\ (result.op = "_php_val" /\ value.kind = "str") =>
              result.out.ok /\ result.out.text = StringTag(value.s)
        /\ (value.kind = "list" /\ Len(value.items) = 1 /\ value.items[1].kind = "str") =>
              /\ result.out.ok
              /\ result.out.text =
                    Str(<<"a", ":", "1", ":", "{", "i", ":", "0", ";">>)
                        \o StringTag(value.items[1].s) \o Str(<<"}">>)
        /\ (/\ value.kind = "dict" /\ Len(value.items) = 1
            /\ value.items[1][1].kind = "str" /\ value.items[1][2].kind = "str") =>
              /\ result.out.ok
              /\ result.out.text =
                    Str(<<"a", ":", "1", ":", "{">>) \o StringTag(value.items[1][1].s)
                        \o StringTag(value.items[1][2].s) \o Str(<<"}">>)
        /\ (value.kind \in {"list", "dict"} /\ result.out.ok) =>
              \A t \in StringsWithin(value) : Occurs(StringTag(t), result.out.text)

\* C10 witness: a dict whose key is four 2-byte Cyrillic letters was encoded
\* with the key tagged s:8.
C10_Witness ==
    /\ CodecDone
    /\ value.kind = "dict"
    /\ Len(value.items) = 2
    /\ value.items[1][1] = PyStr(<<1090, 1077, 1089, 1090>>)
    /\ value.items[1][2] = PyStr(<<8364>>)
    /\ result.out.ok
    /\ StartsWith(result.out.text,
                  Str(<<"a", ":", "2", ":", "{", "s", ":", "8", ":", "\"">>)
                      \o <<1090, 1077, 1089, 1090>>
                      \o Str(<<"\"", ";", "s", ":", "3", ":", "\"">>))

\* a SerializedValue tree: Null, Bool, Int, Float and String leaves, and
\* arrays of them, a list or a mapping whose keys are integers or strings
RECURSIVE IsSerializedValue(_)
IsSerializedValue(v) ==
    IF v.kind \in {"NoneType", "bool", "int", "float", "str"} THEN TRUE
    ELSE IF v.kind = "list"
    THEN \A j \in 1..Len(v.items) : IsSerializedValue(v.items[j])
    ELSE IF v.kind = "dict"
    THEN \A j \in 1..Len(v.items) :
            v.items[j][1].kind \in {"int", "str"} /\ IsSerializedValue(v.items[j][2])
    ELSE FALSE

\* the legacy text grammar: N; b:0; b:1; i:<int>; d:<float>; s:<n>:"..."; and
\* a:<count>:{<key><value>...} with the pairs in the order given, a list's
\* keys being 0, 1, ..., and a key an integer or a string primitive
GrammarKey(k) ==
    IF k.kind = "int" THEN <<105, 58>> \o IntToStr(k.i) \o <<59>> ELSE StringTag(k.s)

RECURSIVE Grammar(_), GrammarPairs(_, _)
GrammarPairs(v, j) ==
    IF j > Len(v.items) THEN <<>>
    ELSE (IF v.kind = "list"
          THEN GrammarKey(PyInt(j - 1)) \o Grammar(v.items[j])
          ELSE GrammarKey(v.items[j][1]) \o Grammar(v.items[j][2]))
         \o GrammarPairs(v, j + 1)

Grammar(v) ==
    IF v.kind = "NoneType" THEN <<78, 59>>
    ELSE IF v.kind = "bool" THEN <<98, 58, 48 + v.i, 59>>
    ELSE IF v.kind = "int" THEN <<105, 58>> \o IntToStr(v.i) \o <<59>>
    ELSE IF v.kind = "float"
    THEN <<100, 58>> \o (IF v.i % 100 = 0 THEN IntToStr(v.i \div 100) ELSE FloatRepr(v.i))
             \o <<59>>
    ELSE IF v.kind = "str" THEN StringTag(v.s)
    ELSE <<97, 58>> \o NatToStr(Len(v.items)) \o <<58, 123>> \o GrammarPairs(v, 1) \o <<125>>

\* C11: every list and every mapping of a SerializedValue tree, at every
\* nesting depth, is emitted as a:<count>:{...} with count the number of its
\* elements, its key/value pairs in exactly the given order, a list's keys
\* the integers 0..count-1, and each key an integer or a string primitive:
\* the codec's text of the array is the text the grammar gives it.
C11_ArrayFollowsGrammar ==
    (CodecDone /\ value.kind \in {"list", "dict"} /\ IsSerializedValue(value))
    => /\ result.out.ok
       /\ result.out.text = Grammar(value)
       /\ StartsWith(result.out.text,
                     <<97, 58>> \o NatToStr(Len(value.items)) \o <<58, 123>>)

\* C11 witness: a mapping of two pairs, a string key before a negative
\* integer key, holding a list of a list, was encoded.
C11_Witness ==
    /\ CodecDone
    /\ value.kind = "dict"
    /\ IsSerializedValue(value)
    /\ Len(value.items) = 2
    /\ value.items[1][1].kind = "str"
    /\ value.items[2][1] = PyInt(-2)
    /\ \E j \in 1..Len(value.items[1][2].items) : value.items[1][2].items[j].kind = "list"
    /\ result.out.ok

\* the kinds the codec supports
SupportedKinds == {"NoneType", "bool", "int", "float", "str", "list", "dict"}

\* some value or some array key of the tree, at any depth, is of another kind
RECURSIVE HasUnsupportedKind(_)
HasUnsupportedKind(v) ==
    \/ v.kind \notin SupportedKinds
    \/ /\ v.kind = "list"
       /\ \E j \in 1..Len(v.items) : HasUnsupportedKind(v.items[j])
    \/ /\ v.kind = "dict"
       /\ \E j \in 1..Len(v.items) :
             HasUnsupportedKind(v.items[j][1]) \/ HasUnsupportedKind(v.items[j][2])

\* C12: a value of a kind other than null, bool, int, float, string, list and
\* mapping is rejected with an error, not coerced, wherever it stands in the
\* tree, as a value or as an array key; a rejected encode gives no text; and
\* a bool is emitted as b:0; or b:1;, never through the integer form.
C12_UnsupportedKindsRejected ==
    CodecDone =>
        /\ HasUnsupportedKind(value) => ~result.out.ok
        /\ ~result.out.ok => DOMAIN result.out = {"ok", "err"}
        /\ (result.op = "_php_val" /\ value.kind = "bool") =>
              result.out.ok /\ result.out.text = <<98, 58, 48 + value.i, 59>>
        /\ (value.kind = "dict" /\ result.out.ok) =>
              \A j \in 1..Len(value.items) :
                  value.items[j][1].kind = "bool" =>
                      ~Occurs(<<105, 58>> \o PyStrOf(value.items[j][1]), result.out.text)

\* A reader of the legacy text grammar, for the round trip.  It reads the
\* value that starts at position p of the text t and gives the value and
\* the position after it; an array is read as its ordered key/value pairs.

\* the position after the run of digits that starts at p
DigitsEnd(t, p) ==
    CHOOSE q \in p..(Len(t) + 1) :
        /\ \A r \in p..(q - 1) : t[r] \in 48..57
        /\ q = Len(t) + 1 \/ t[q] \notin 48..57

RECURSIVE NatOf(_)
NatOf(ds) == IF ds = <<>> THEN 0 ELSE 10 * NatOf(SubSeq(ds, 1, Len(ds) - 1)) + (ds[Len(ds)] - 48)

\* the position of the first digit of the number after the two characters
\* of a tag at p, and the sign of the number
NumberStart(t, p) == IF t[p + 2] = 45 THEN p + 3 ELSE p + 2

NumberSign(t, p) == IF t[p + 2] = 45 THEN -1 ELSE 1

WholePart(t, p) == NatOf(SubSeq(t, NumberStart(t, p), DigitsEnd(t, NumberStart(t, p)) - 1))

\* the hundredths a fraction of one or two digits stands for
HundredthsOf(ds) == IF Len(ds) = 1 THEN 10 * NatOf(ds) ELSE NatOf(ds)

ReadInt(t, p) ==
    [v |-> PyInt(NumberSign(t, p) * WholePart(t, p)),
     next |-> DigitsEnd(t, NumberStart(t, p)) + 1]

ReadFloat(t, p) ==
    LET dot == DigitsEnd(t, NumberStart(t, p))
    IN  IF t[dot] = 46
        THEN [v |-> PyFloat(NumberSign(t, p)
                            * (100 * WholePart(t, p)
                               + HundredthsOf(SubSeq(t, dot + 1, DigitsEnd(t, dot + 1) - 1)))),
              next |-> DigitsEnd(t, dot + 1) + 1]
        ELSE [v |-> PyFloat(NumberSign(t, p) * 100 * WholePart(t, p)), next |-> dot + 1]

\* the position after the characters that make up n bytes from position q
RECURSIVE AfterBytes(_, _, _)
AfterBytes(t, q, n) ==
    IF n <= 0 \/ q > Len(t) THEN q ELSE AfterBytes(t, q + 1, n - BytesOfCharacter(t[q]))

\* s:<n>:"<payload>"; at p: the payload starts two characters after <n>
ReadString(t, p) ==
    LET from == DigitsEnd(t, p + 2) + 2
        to   == AfterBytes(t, from, NatOf(SubSeq(t, p + 2, DigitsEnd(t, p + 2) - 1)))
    IN  [v |-> PyStr(SubSeq(t, from, to - 1)), next |-> to + 2]

RECURSIVE Read(_, _), ReadPairs(_, _, _)
ReadPairs(t, q, n) ==
    IF n = 0 THEN [pairs |-> <<>>, next |-> q]
    ELSE LET key  == Read(t, q)
             val  == Read(t, key.next)
             rest == ReadPairs(t, val.next, n - 1)
         IN  [pairs |-> <<<<key.v, val.v>>>> \o rest.pairs, next |-> rest.next]

ReadArray(t, p) ==
    LET body == ReadPairs(t, DigitsEnd(t, p + 2) + 2,
                          NatOf(SubSeq(t, p + 2, DigitsEnd(t, p + 2) - 1)))
    IN  [v |-> PyDict(body.pairs), next |-> body.next + 1]

Read(t, p) ==
    IF t[p] = 78 THEN [v |-> PyNone, next |-> p + 2]
    ELSE IF t[p] = 98 THEN [v |-> PyBool(t[p + 2] = 49), next |-> p + 4]
    ELSE IF t[p] = 105 THEN ReadInt(t, p)
    ELSE IF t[p] = 100 THEN ReadFloat(t, p)
    ELSE IF t[p] = 115 THEN ReadString(t, p)
    ELSE ReadArray(t, p)

\* the decoded value of a whole text
Decoded(t) == Read(t, 1).v

\* a list as the mapping of its positions to its elements
AsMapping(v) == PyDict([j \in 1..Len(v.items) |-> <<PyInt(j - 1), v.items[j]>>])

\* a tree with every list, at every depth, as that mapping
RECURSIVE ArrayForm(_)
ArrayForm(v) ==
    IF v.kind = "list"
    THEN PyDict([j \in 1..Len(v.items) |-> <<PyInt(j - 1), ArrayForm(v.items[j])>>])
    ELSE IF v.kind = "dict"
    THEN PyDict([j \in 1..Len(v.items) |-> <<v.items[j][1], ArrayForm(v.items[j][2])>>])
    ELSE v

\* C13 (as claimed): two different SerializedValue trees never share an
\* encoding: a list is told apart from the mapping of its positions to its
\* elements, and an int from the float of the same value; so decoding an
\* encoding gives back the very tree that was encoded.
C13_EncodingTellsTreesApart ==
    (CodecDone /\ result.op = "_php_val" /\ IsSerializedValue(value))
    => /\ value.kind = "list" => _php_val(AsMapping(value)) # result.out
       /\ value.kind = "int" => _php_val(PyFloat(100 * value.i)) # result.out
       /\ Decoded(result.out.text) = value

\* C13 (amended): decoding the encoding of a SerializedValue tree reads the
\* whole text and yields the tree in array form, every list being the
\* mapping of its positions 0..n-1 to its elements, with the leaves, their
\* kinds (an int stays an int, a float a float), the keys, the order and the
\* nesting as in the original; a list and the mapping of its positions share
\* their encoding, and no other two trees do.
C13_RoundTripUpToArrayForm ==
    (CodecDone /\ result.op = "_php_val" /\ IsSerializedValue(value))
    => /\ result.out.ok
       /\ Read(result.out.text, 1).next = Len(result.out.text) + 1
       /\ Decoded(result.out.text) = ArrayForm(value)
       /\ value.kind = "list" => _php_val(AsMapping(value)) = result.out
       /\ value.kind = "int" => _php_val(PyFloat(100 * value.i)) # result.out

\* C13 witness: a list of two elements, a multi-byte string and a float with
\* a fraction, was encoded and read back as the mapping 0 -> string,
\* 1 -> float.
C13_Witness ==
    /\ CodecDone
    /\ result.op = "_php_val"
    /\ value = PyList(<<PyStr(<<1090, 1077, 1089, 1090>>), PyFloat(50)>>)
    /\ Decoded(result.out.text) =
          PyDict(<< <<PyInt(0), PyStr(<<1090, 1077, 1089, 1090>>)>>,
                    <<PyInt(1), PyFloat(50)>> >>)

---------------------------------------------------------------------------
(* The answer parser on a variants block: SpecParse.                       *)

MaxLines == 2

\* option texts "Paris", " a||b " (a text that holds the delimiter), "x y"
ParseTexts ==
    {Str(<<"P", "a", "r", "i", "s">>), Str(<<" ", "a", "|", "|", "b", " ">>),
     Str(<<"x", " ", "y">>)}

\* right-hand sides: none, "2", " 0,5" (decimal comma), "1.5 "
ParseRights ==
    {<<>>, Str(<<"2">>), Str(<<" ", "0", ",", "5">>), Str(<<"1", ".", "5", " ">>)}

ParseGoodLines == {t \o Str(<<"|", "|">>) \o r : t \in ParseTexts, r \in ParseRights}

ParseBlankLines == {<<>>, Str(<<" ", "\t">>)}

\* a line without the delimiter, and right-hand sides that are no number
ParseBadLines ==
    {Str(<<"P", "a", "r", "i", "s">>), Str(<<"a", "|", "|", "x">>),
     Str(<<"b", "|", "|", "1", ".", "2", ".", "3">>)}

ParseLines == ParseGoodLines \cup ParseBlankLines \cup ParseBadLines

\* the lines joined by "\n" or by "\r\n"
ParseBlocks ==
    {JoinWith(sep, ls) : sep \in {Str(<<"\n">>), Str(<<"\r", "\n">>)},
                         ls \in SeqsUpTo(ParseLines, MaxLines)}

InitParse ==
    /\ \E vb \in ParseBlocks : row = [EmptyRow EXCEPT !.variants_and_points = vb]
    /\ meta = EmptyMeta
    /\ settings = DefaultSettings
    /\ value = None
    /\ result = NoResult
    /\ log = <<>>

\* a call of parse_variants_block(row.variants_and_points)
CallParseVariantsBlock ==
    /\ result.op = "none"
    /\ result' = [op |-> "parse_variants_block",
                  out |-> parse_variants_block(row.variants_and_points)]
    /\ UNCHANGED <<row, meta, settings, value, log>>

NextParse == CallParseVariantsBlock

SpecParse == InitParse /\ [][NextParse]_vars

---------------------------------------------------------------------------
(* Claims about the answer parser, checked under SpecParse.                *)

ParseDone == result.op = "parse_variants_block"

Block == row.variants_and_points

\* a line of the block is a maximal run of characters that are no line
\* break; LineStarts are the positions where the lines begin
IsBreak(c) == c \in {10, 13}

LineStarts ==
    {i \in 1..Len(Block) : ~IsBreak(Block[i]) /\ (i = 1 \/ IsBreak(Block[i - 1]))}

LineEnd(i) ==
    CHOOSE j \in i..Len(Block) :
        /\ \A r \in i..j : ~IsBreak(Block[r])
        /\ j = Len(Block) \/ IsBreak(Block[j + 1])

LineAt(i) == SubSeq(Block, i, LineEnd(i))

\* the lines that hold a character other than a blank, and the k-th of them
NonBlankStarts ==
    {i \in LineStarts : \E r \in i..LineEnd(i) : Block[r] \notin {32, 9}}

KthLine(k) ==
    LineAt(CHOOSE i \in NonBlankStarts :
               Cardinality({j \in NonBlankStarts : j < i}) = k - 1)

\* the positions of a line where "||" stands, and the right-most of them
DelimiterPositions(line) ==
    {q \in 1..(Len(line) - 1) : line[q] = 124 /\ line[q + 1] = 124}

LastDelimiter(line) ==
    CHOOSE q \in DelimiterPositions(line) : \A r \in DelimiterPositions(line) : r <= q

LeftOf(line) == Strip(SubSeq(line, 1, LastDelimiter(line) - 1))

RightOf(line) == Strip(SubSeq(line, LastDelimiter(line) + 2, Len(line)))

\* the numbers the right-hand sides of the rows stand for, in hundredths
PointsWritten ==
    (<<>> :> 0) @@ (Str(<<"2">>) :> 200) @@ (Str(<<"0", ",", "5">>) :> 50)
        @@ (Str(<<"1", ".", "5">>) :> 150) @@ (<<45, 50>> :> (0 - 200))

\* every non-blank line holds the delimiter and a right-hand side that is
\* empty or a number
IsWellFormedLine(line) ==
    DelimiterPositions(line) # {} /\ RightOf(line) \in DOMAIN PointsWritten

IsWellFormedBlock == \A i \in NonBlankStarts : IsWellFormedLine(LineAt(i))

\* C14: parse_variants_block splits the block on line breaks, discards the
\* blank lines and keeps the order of the others; each line is split at its
\* right-most "||": the text is what stands left of it, trimmed (it may hold
\* "||" itself), and the points are the right-hand side, 0 when it is empty,
\* a decimal written with "." or with ",".
C14_BlockParsedLineByLine ==
    (ParseDone /\ IsWellFormedBlock)
    => /\ result.out.ok
       /\ Len(result.out.val) = Cardinality(NonBlankStarts)
       /\ \A k \in 1..Len(result.out.val) :
             /\ result.out.val[k].text = LeftOf(KthLine(k))
             /\ result.out.val[k].points = PointsWritten[RightOf(KthLine(k))]

\* C14 witness: the block of a blank line and the line "Paris||2" parsed to
\* the one pair ("Paris", 2.0).
C14_Witness ==
    /\ ParseDone
    /\ Cardinality(LineStarts) = 2
    /\ result.out.ok
    /\ result.out.val = <<[text |-> Str(<<"P", "a", "r", "i", "s">>), points |-> 200]>>

\* C14 witness of the text that holds the delimiter, with a decimal comma.
C14_WitnessInnerDelimiter ==
    /\ ParseDone
    /\ result.out.ok
    /\ \E k \in 1..Len(result.out.val) :
          result.out.val[k] = [text |-> Str(<<"a", "|", "|", "b">>), points |-> 50]

---------------------------------------------------------------------------
(* app/mappers/lms_task_mapper.py: the task content and the row mapper     *)

\* None where a list is expected
NoneList == <<None>>

\* str.upper() of one character: ASCII and the Cyrillic block
UpperChar(c) ==
    IF c \in 97..122 THEN c - 32
    ELSE IF c \in 1072..1103 THEN c - 32
    ELSE IF c \in 1104..1119 THEN c - 80
    ELSE c

Upper(s) == [i \in 1..Len(s) |-> UpperChar(s[i])]

\* x.strip() or None
StripOrNone(x) == IF StripOrEmpty(x) = <<>> THEN NoneStr ELSE StripOrEmpty(x)

\* the values of the enum QuestionType
QuestionTypeValues ==
    (Str(<<"S", "C">>) :> "SC") @@ (Str(<<"M", "C">>) :> "MC")
        @@ (Str(<<"S", "A">>) :> "SA") @@ (Str(<<"T", "A">>) :> "TA")
        @@ (Str(<<"S", "A", "_", "C", "O", "M">>) :> "SA_COM")

\* QuestionType((code or "").strip().upper()): ValueError for no value
QuestionTypeOf(code) ==
    IF Upper(StripOrEmpty(code)) \in DOMAIN QuestionTypeValues
    THEN [ok |-> TRUE, qtype |-> QuestionTypeValues[Upper(StripOrEmpty(code))]]
    ELSE [ok |-> FALSE, err |-> "ValueError"]

\* add_input_link_to_title: f"[{label}: {link}]\n\n{title}".strip()
add_input_link_to_title(title, link, label) ==
    IF link = <<>> THEN title
    ELSE Strip(<<91>> \o label \o <<58, 32>> \o link \o <<93, 10, 10>> \o title)

\* a variant of _build_stem_text that adds the link block whatever the flag
BuildStemTextIgnoringFlag(r, st) ==
    IF r.input_link # <<>>
    THEN add_input_link_to_title(normalize(r.text), r.input_link, st.input_link_label)
    ELSE normalize(r.text)

\* _build_stem_text
BuildStemText(r, st) ==
    IF st.prepend_input_link /\ r.input_link # <<>>
    THEN add_input_link_to_title(normalize(r.text), r.input_link, st.input_link_label)
    ELSE normalize(r.text)

\* _build_media: the row has no media_url, so image_url is None
BuildMedia(r) ==
    IF StripOrNone(r.video_url) = NoneStr THEN None
    ELSE [image_url |-> NoneStr, audio_url |-> NoneStr, video_url |-> Strip(r.video_url)]

\* a variant of TaskOptions that copies the ChoiceOptions whole, correctness
\* and points included
TaskOptionsWithScoring(options) ==
    [i \in 1..Len(options) |->
        [id |-> options[i].id, text |-> options[i].text,
         explanation |-> NoneStr, is_active |-> TRUE,
         is_correct |-> options[i].is_correct, points |-> options[i].points]]

\* the TaskOption entries build_task_content makes of the ChoiceOptions
TaskOptions(options) ==
    [i \in 1..Len(options) |->
        [id |-> options[i].id, text |-> options[i].text,
         explanation |-> NoneStr, is_active |-> TRUE]]

\* the TaskContent dict of build_task_content with the given options
TaskContent(r, qtype, st, options) ==
    [type |-> qtype,
     code |-> StripOrNone(r.question_code),
     title |-> IF r.quiz_title # <<>> THEN r.quiz_title
               ELSE Slice(BuildStemText(r, st), 1,
                          IF Len(BuildStemText(r, st)) < 120
                          THEN Len(BuildStemText(r, st)) ELSE 120),
     stem |-> BuildStemText(r, st),
     prompt |-> StripOrNone(r.hint),
     media |-> BuildMedia(r),
     options |-> options,
     tags |-> <<>>,
     difficulty_code |-> NoneStr,
     course_uid |-> NoneStr]

\* what build_task_content returns when _parse_choice_options gives pco: for
\* SC/MC its options, and its exception let through
ContentOutcome(r, qtype, st, pco) ==
    IF qtype \notin {"SC", "MC"}
    THEN [ok |-> TRUE, content |-> TaskContent(r, qtype, st, NoneList)]
    ELSE IF ~pco.ok THEN [ok |-> FALSE, err |-> pco.err]
    ELSE [ok |-> TRUE, content |-> TaskContent(r, qtype, st, TaskOptions(pco.options))]

\* build_task_content
BuildTaskContent(r, qtype, st) == ContentOutcome(r, qtype, st, ParseChoiceOptions(r))

\* the functions row_to_task_upsert_item runs, in order
MapperCalls ==
    <<"QuestionType", "map_quiz_title_to_course_id", "map_difficulty_ru_to_lms_id",
      "build_task_content", "build_solution_rules">>

\* what row_to_task_upsert_item returns once the type is known, given the
\* outcomes of the two lookups and the two builders.  calls lists the
\* functions run, log the messages logged
MappedItem(r, course, difficulty, content, rules) ==
    IF ~course.ok
    THEN [ok |-> FALSE, err |-> course.err, calls |-> SubSeq(MapperCalls, 1, 2),
          log |-> <<>>]
    ELSE IF ~content.ok
    THEN [ok |-> FALSE, err |-> content.err, calls |-> SubSeq(MapperCalls, 1, 4),
          log |-> difficulty.warnings]
    ELSE IF ~rules.ok
    THEN [ok |-> FALSE, err |-> rules.err, calls |-> MapperCalls,
          log |-> difficulty.warnings]
    ELSE [ok |-> TRUE,
          item |-> [external_uid |-> StripOrNone(r.question_code),
                    course_id |-> course.id,
                    difficulty_id |-> difficulty.id,
                    task_content |-> content.content,
                    solution_rules |-> rules.solution,
                    max_score |-> rules.solution.max_score],
          calls |-> MapperCalls,
          log |-> difficulty.warnings \o rules.warnings \o <<"row_to_task_upsert_item">>]

\* row_to_task_upsert_item once the type is known
MapRowOfType(r, qtype, m, st) ==
    MappedItem(r, MapCourse(r, m.courses), MapDifficulty(r, m.difficulties),
               BuildTaskContent(r, qtype, st), BuildSolutionRules(r, qtype, st))

\* a variant of RowToTaskUpsertItem that maps a row of an unknown type as a
\* text answer
RowToTaskUpsertItemDefaultingType(r, m, st) ==
    MapRowOfType(r, IF QuestionTypeOf(r.qtype_code).ok
                    THEN QuestionTypeOf(r.qtype_code).qtype ELSE "TA", m, st)

\* row_to_task_upsert_item: the type first, whose ValueError it logs and lets
\* through
RowToTaskUpsertItem(r, m, st) ==
    IF ~QuestionTypeOf(r.qtype_code).ok
    THEN [ok |-> FALSE, err |-> QuestionTypeOf(r.qtype_code).err,
          calls |-> SubSeq(MapperCalls, 1, 1),
          log |-> <<"unknown task type qtype_code">>]
    ELSE MapRowOfType(r, QuestionTypeOf(r.qtype_code).qtype, m, st)

\* a variant of ArgumentsAfterMapping in which a call uses up the difficulty
\* table
ArgumentsAfterMappingConsuming(r, m, st) ==
    [row |-> r, meta |-> [m EXCEPT !.difficulties = <<>>]]

\* the caller's row and tables after row_to_task_upsert_item(r, m, st): the
\* mapper reads row.* and meta["courses"], meta["difficulties"] and assigns
\* only to the ChoiceOption objects and the dicts it creates itself
ArgumentsAfterMapping(r, m, st) == [row |-> r, meta |-> m]

---------------------------------------------------------------------------
(* The row mapper on one row: SpecMapper.                                  *)

\* lines "Paris||2", "Paris||-2", " a||b || 0,5", a blank line, and the
\* malformed lines
MapperLines ==
    {Str(<<"P", "a", "r", "i", "s", "|", "|", "2">>),
     <<80, 97, 114, 105, 115, 124, 124, 45, 50>>,
     Str(<<" ", "a", "|", "|", "b", " ", "|", "|", " ", "0", ",", "5">>),
     Str(<<" ", "\t">>)} \cup ParseBadLines

MapperBlocks ==
    {JoinWith(sep, ls) : sep \in {Str(<<"\n">>), Str(<<"\r", "\n">>)},
                         ls \in SeqsUpTo(MapperLines, MaxLines)}

\* type codes " sc", "MC", "SA", "sa_com ", "TA"
MapperTypeCodes ==
    {Str(<<" ", "s", "c">>), Str(<<"M", "C">>), Str(<<"S", "A">>),
     Str(<<"s", "a", "_", "c", "o", "m", " ">>), Str(<<"T", "A">>)}

\* a table of one course and one difficulty
OneCourseMeta ==
    [courses |-> <<[id |-> 3, course_uid |-> Str(<<"P", "1">>), title |-> Str(<<"P">>)]>>,
     difficulties |-> <<[id |-> 5, name_ru |-> Str(<<"a", "b">>),
                         code |-> Str(<<"E", "a", "s", "y">>)]>>]

InitMapper ==
    /\ \E vb \in MapperBlocks, tc \in MapperTypeCodes :
          row = [EmptyRow EXCEPT !.variants_and_points = vb, !.qtype_code = tc,
                                 !.question_code = Str(<<"Q", "1">>),
                                 !.correct_answer = Str(<<"P", "a", "r", "i", "s">>),
                                 !.difficulty_ru = Str(<<"a", "b">>)]
    /\ meta = OneCourseMeta
    /\ settings = DefaultSettings
    /\ value = None
    /\ result = NoResult
    /\ log = <<>>

\* the function fn returned out: the outcome is kept and its messages logged
Returns(fn, out, messages) ==
    /\ result' = [op |-> fn, out |-> out]
    /\ log' = log \o messages
    /\ UNCHANGED <<row, meta, settings, value>>

MapperReturns(out) == Returns("row_to_task_upsert_item", out, out.log)

\* a call of row_to_task_upsert_item(row, meta, settings)
CallRowToTaskUpsertItem ==
    /\ result.op = "none"
    /\ MapperReturns(RowToTaskUpsertItem(row, meta, settings))

\* a call of build_task_content(row, qtype, settings) with the row's type
CallBuildTaskContent ==
    /\ result.op = "none"
    /\ QuestionTypeOf(row.qtype_code).ok
    /\ Returns("build_task_content",
               BuildTaskContent(row, QuestionTypeOf(row.qtype_code).qtype, settings),
               <<>>)

RulesReturn(out) == Returns("build_solution_rules", out, out.warnings)

\* a call of build_solution_rules(row, qtype, settings) with the row's type
CallBuildSolutionRules ==
    /\ result.op = "none"
    /\ QuestionTypeOf(row.qtype_code).ok
    /\ RulesReturn(BuildSolutionRules(row, QuestionTypeOf(row.qtype_code).qtype,
                                     settings))

NextMapper ==
    \/ CallParseVariantsBlock
    \/ CallRowToTaskUpsertItem
    \/ CallBuildTaskContent
    \/ CallBuildSolutionRules

SpecMapper == InitMapper /\ [][NextMapper]_vars

---------------------------------------------------------------------------
(* Claims about the row mapper, checked under SpecMapper.                  *)

\* the row's block has a non-blank line without "||", or one whose right-hand
\* side is neither empty nor a number written with '.' or ','
HasMalformedLine == ~IsWellFormedBlock

\* C15: when a non-blank line of the variants block has no "||", or a
\* right-hand side that is not empty and not a number, parse_variants_block
\* raises, and on an SC/MC row build_task_content, build_solution_rules and
\* row_to_task_upsert_item raise too: no content, no rules, no item.
C15_MalformedBlockFailsTheRow ==
    HasMalformedLine =>
        /\ result.op = "parse_variants_block" =>
             ~result.out.ok /\ result.out.err = "ValueError"
        /\ (result.op \in {"build_task_content", "build_solution_rules",
                           "row_to_task_upsert_item"}
            /\ QuestionTypeOf(row.qtype_code).qtype \in {"SC", "MC"}) =>
             /\ ~result.out.ok
             /\ result.out.err = "ValueError"
             /\ DOMAIN result.out \cap {"item", "content", "solution", "val"} = {}

C15_Witness ==
    /\ HasMalformedLine
    /\ Cardinality(NonBlankStarts) = 2
    /\ IsWellFormedLine(KthLine(1))
    /\ result.op = "row_to_task_upsert_item"
    /\ QuestionTypeOf(row.qtype_code).qtype = "SC"
    /\ ~result.out.ok
    /\ result.out.calls = <<"QuestionType", "map_quiz_title_to_course_id",
                            "map_difficulty_ru_to_lms_id", "build_task_content">>
    /\ log = <<>>

---------------------------------------------------------------------------
(* The option ids of long choice rows: SpecLetters.                        *)

\* the longest block drawn: one option more than there are letters
MaxRowOptions == 27

\* the block of n options "a||p", "b||p", ..., one per line
NumberedBlock(n, p) ==
    JoinWith(Str(<<"\n">>), [i \in 1..n |-> <<96 + i, 124, 124>> \o p])

InitLetters ==
    /\ \E n \in 0..MaxRowOptions, p \in {<<>>, Str(<<"2">>)},
          tc \in {Str(<<"S", "C">>), Str(<<"M", "C">>)} :
          row = [EmptyRow EXCEPT !.variants_and_points = NumberedBlock(n, p),
                                 !.qtype_code = tc,
                                 !.question_code = Str(<<"Q", "1">>),
                                 !.correct_answer = Str(<<"a">>)]
    /\ meta = OneCourseMeta
    /\ settings = DefaultSettings
    /\ value = None
    /\ result = NoResult
    /\ log = <<>>

\* a call of _parse_choice_options(row, qtype)
CallParseChoiceOptions ==
    /\ result.op = "none"
    /\ result' = [op |-> "parse_choice_options", out |-> ParseChoiceOptions(row)]
    /\ UNCHANGED <<row, meta, settings, value, log>>

NextLetters == CallParseChoiceOptions \/ CallRowToTaskUpsertItem

SpecLetters == InitLetters /\ [][NextLetters]_vars

---------------------------------------------------------------------------
(* Claims about the option ids, checked under SpecLetters.                 *)

\* the id of the numeric scheme for the n-th option: opt_<n>
NumericId(n) == Str(<<"o", "p", "t", "_">>) \o IntToStr(n)

\* C16: the options of a choice row get unique ids by position, the letters
\* A, B, C, ... for the first 26 and opt_<n> beyond them, so that a row of
\* more than 26 options is mapped and does not fail.
C16_IdsByPositionThenNumbered ==
    /\ result.op = "parse_choice_options" =>
         /\ result.out.ok
         /\ Len(result.out.options) = Cardinality(NonBlankStarts)
         /\ \A i \in 1..Len(result.out.options) :
               result.out.options[i].id =
                   IF i <= 26 THEN <<64 + i>> ELSE NumericId(i)
         /\ \A i, j \in 1..Len(result.out.options) :
               result.out.options[i].id = result.out.options[j].id => i = j
    /\ result.op = "row_to_task_upsert_item" =>
         /\ result.out.ok
         /\ Len(result.out.item.task_content.options) = Cardinality(NonBlankStarts)

---------------------------------------------------------------------------
(* app/services/lms_import_service.py: LmsImportService.import_from_gsheets *)
(* The run is kept in value: the rows fetched, the number of rows the loop  *)
(* has processed, valid_items, errors, the calls made to the LMS client and *)
(* the phase of the run.                                                    *)

\* no limit argument
NoLimit == -1

\* rows = rows[:limit] for a limit that is not negative
Limited(rows, limit) ==
    IF limit = NoLimit \/ limit >= Len(rows) THEN rows ELSE SubSeq(rows, 1, limit)

\* step 3.1 failed: the message names the row number and the type code
UnknownTypeError(idx, r) ==
    [kind |-> "unknown_type", idx |-> idx, qtype_code |-> r.qtype_code,
     exc |-> "ValueError"]

\* steps 3.2 and 3.3 failed: the message names the row number, the question
\* code and the exception or the validation errors
RowError(kind, idx, r, detail) ==
    [kind |-> kind, idx |-> idx, question_code |-> r.question_code, exc |-> detail]

\* a variant of RowOutcome that keeps the item whatever verdict validate_task
\* returns
RowOutcomeIgnoringVerdict(idx, r, mapped, validation) ==
    IF ~QuestionTypeOf(r.qtype_code).ok
    THEN [valid |-> FALSE, error |-> UnknownTypeError(idx, r), log |-> <<>>,
          validated |-> FALSE, answer |-> "none"]
    ELSE IF ~mapped.ok
    THEN [valid |-> FALSE, error |-> RowError("mapping", idx, r, mapped.err),
          log |-> mapped.log, validated |-> FALSE, answer |-> "none"]
    ELSE IF validation = "raises"
    THEN [valid |-> FALSE, error |-> RowError("validate_request", idx, r, "HTTPError"),
          log |-> mapped.log, validated |-> TRUE, answer |-> validation]
    ELSE [valid |-> TRUE, item |-> mapped.item, log |-> mapped.log, validated |-> TRUE,
          answer |-> validation]

\* one pass of the loop body for row r, the idx-th, when row_to_task_upsert_item
\* gives mapped and validate_task answers with validation: the entry for
\* errors, or the item for valid_items
RowOutcome(idx, r, mapped, validation) ==
    IF ~QuestionTypeOf(r.qtype_code).ok
    THEN [valid |-> FALSE, error |-> UnknownTypeError(idx, r), log |-> <<>>,
          validated |-> FALSE, answer |-> "none"]
    ELSE IF ~mapped.ok
    THEN [valid |-> FALSE, error |-> RowError("mapping", idx, r, mapped.err),
          log |-> mapped.log, validated |-> FALSE, answer |-> "none"]
    ELSE IF validation = "raises"
    THEN [valid |-> FALSE, error |-> RowError("validate_request", idx, r, "HTTPError"),
          log |-> mapped.log, validated |-> TRUE, answer |-> validation]
    ELSE IF validation = "rejected"
    THEN [valid |-> FALSE, error |-> RowError("validate_rejected", idx, r, "errors"),
          log |-> mapped.log, validated |-> TRUE, answer |-> validation]
    ELSE [valid |-> TRUE, item |-> mapped.item, log |-> mapped.log, validated |-> TRUE,
          answer |-> validation]

\* the run after the loop body gave out for the next row
AfterRow(run, out) ==
    [run EXCEPT !.pos = run.pos + 1,
                !.valid_items = IF out.valid THEN Append(run.valid_items, out.item)
                                ELSE run.valid_items,
                !.errors = IF out.valid THEN run.errors ELSE Append(run.errors, out.error),
                !.calls = IF out.validated
                          THEN Append(run.calls, [fn |-> "validate_task", idx |-> run.pos + 1,
                                                  answer |-> out.answer])
                          ELSE run.calls]

\* the messages the loop body logs for out
RowMessages(out) ==
    out.log \o <<IF out.valid THEN "validated" ELSE out.error.kind>>

RowProcessed(out) ==
    /\ value' = AfterRow(value, out)
    /\ log' = log \o RowMessages(out)
    /\ UNCHANGED <<row, meta, settings, result>>

\* steps 1 and 2: fetch the rows, cut them to the limit, return if there is
\* none, else fetch the meta
ImportStart ==
    /\ value.phase = "start"
    /\ value' = [value EXCEPT
                    !.rows = Limited(value.rows, value.limit),
                    !.phase = IF Limited(value.rows, value.limit) = <<>>
                              THEN "returned" ELSE "loop",
                    !.calls = IF Limited(value.rows, value.limit) = <<>> THEN <<>>
                              ELSE <<[fn |-> "get_tasks_meta"]>>]
    /\ UNCHANGED <<row, meta, settings, result, log>>

\* step 3 for the next row; validate_task raises, rejects or accepts
ImportRow ==
    /\ value.phase = "loop"
    /\ value.pos < Len(value.rows)
    /\ \E validation \in {"raises", "rejected", "valid"} :
          RowProcessed(RowOutcome(value.pos + 1, value.rows[value.pos + 1],
                                  RowToTaskUpsertItem(value.rows[value.pos + 1],
                                                      meta, settings),
                                  validation))

\* steps 4 and 5: nothing is sent on a dry run or without a valid item;
\* bulk_upsert_tasks gets valid_items and its exception is raised again
ImportFinish ==
    /\ value.phase = "loop"
    /\ value.pos = Len(value.rows)
    /\ \/ /\ settings.lms_import_dry_run \/ value.valid_items = <<>>
          /\ value' = [value EXCEPT !.phase = "returned"]
       \/ /\ ~settings.lms_import_dry_run
          /\ value.valid_items # <<>>
          /\ \E phase \in {"returned", "raised"} :
                value' = [value EXCEPT
                            !.phase = phase,
                            !.calls = Append(value.calls,
                                             [fn |-> "bulk_upsert_tasks",
                                              items |-> value.valid_items])]
    /\ UNCHANGED <<row, meta, settings, result, log>>

---------------------------------------------------------------------------
(* A run of the LMS import on a small sheet: SpecImport.                   *)

MaxRows == 2

\* a row of the sheet with the given code, type, variants block, answer and
\* course code
SheetRow(code, tc, vb, ca, cc) ==
    [EmptyRow EXCEPT !.question_code = code, !.qtype_code = tc,
                     !.variants_and_points = vb, !.correct_answer = ca,
                     !.course_code = cc, !.difficulty_ru = Str(<<"a", "b">>)]

\* Q1: a single choice "Paris||2", "x y||"; Q2: a multiple choice whose
\* line has no "||"; Q3: the type "XX"; Q4: the type "SA+COM"; Q5: a short
\* answer " sa_com"; Q6: a text answer of the course "X1", which no table has
SheetRows ==
    {SheetRow(Str(<<"Q", "1">>), Str(<<"S", "C">>),
              Str(<<"P", "a", "r", "i", "s", "|", "|", "2", "\n", "x", " ", "y", "|", "|">>),
              Str(<<"P", "a", "r", "i", "s">>), Str(<<"P", "1">>)),
     SheetRow(Str(<<"Q", "2">>), Str(<<"M", "C">>), Str(<<"P", "a", "r", "i", "s">>),
              Str(<<"P", "a", "r", "i", "s">>), Str(<<"P", "1">>)),
     SheetRow(Str(<<"Q", "3">>), Str(<<"X", "X">>), <<>>, <<>>, Str(<<"P", "1">>)),
     SheetRow(Str(<<"Q", "4">>), Str(<<"S", "A", "+", "C", "O", "M">>), <<>>,
              Str(<<"a">>), Str(<<"P", "1">>)),
     SheetRow(Str(<<"Q", "5">>), Str(<<" ", "s", "a", "_", "c", "o", "m">>), <<>>,
              Str(<<"a", ";", "b">>), Str(<<"P", "1">>)),
     SheetRow(Str(<<"Q", "6">>), Str(<<"T", "A">>), <<>>, <<>>, Str(<<"X", "1">>))}

\* a table of two courses, neither of them "X1"
TwoCourseMeta ==
    [OneCourseMeta EXCEPT
        !.courses = Append(@, [id |-> 4, course_uid |-> Str(<<"P", "2">>),
                               title |-> Str(<<"Q">>)])]

InitImport ==
    /\ \E rows \in SeqsUpTo(SheetRows, MaxRows), limit \in {NoLimit, 1} :
          /\ value = [rows |-> rows, limit |-> limit, pos |-> 0, valid_items |-> <<>>,
                      errors |-> <<>>, calls |-> <<>>, phase |-> "start"]
          /\ row = IF rows = <<>> THEN EmptyRow ELSE rows[Len(rows)]
    /\ meta \in {OneCourseMeta, TwoCourseMeta}
    /\ \E dry \in BOOLEAN : settings = [DefaultSettings EXCEPT !.lms_import_dry_run = dry]
    /\ result = NoResult
    /\ log = <<>>

\* a run of import_from_gsheets, and a call of row_to_task_upsert_item on the
\* last row of the sheet
NextImport == ImportStart \/ ImportRow \/ ImportFinish \/ CallRowToTaskUpsertItem

SpecImport == InitImport /\ [][NextImport]_vars

---------------------------------------------------------------------------
(* app/qsm/services.py: ImportService.import_questions_batch.  The store   *)
(* behind the repository is kept as the list of quiz names, a quiz's id    *)
(* being its place in it, and the number of questions; every call of a     *)
(* repository method that writes is kept in effects with the number of the *)
(* row it was made for.  The repository methods are taken to return.       *)

\* get_quiz_id_by_name: the id of the quiz of that name, 0 for None
QuizIdByName(quizzes, title) ==
    IF \E i \in 1..Len(quizzes) : quizzes[i] = title
    THEN First({i \in 1..Len(quizzes) : quizzes[i] = title})
    ELSE 0

\* quiz_id after lines 85-88: the quiz found, or the one created
QuizIdFor(quizzes, title) ==
    IF QuizIdByName(quizzes, title) = 0 THEN Len(quizzes) + 1
    ELSE QuizIdByName(quizzes, title)

\* the repository methods that write, called at lines 85-109
QuizCalls(created) ==
    (IF created THEN <<"get_or_create_quiz_by_name">> ELSE <<>>)
        \o <<"ensure_quiz_system_combined", "ensure_quiz_contact_flags",
             "ensure_quiz_contact_form_block", "ensure_quiz_message_after",
             "ensure_question_from_total", "ensure_quiz_post", "upsert_postmeta">>

\* the repository calls of lines 85-109 for the idx-th row, in order
QuizEffects(idx, quiz_id, created) ==
    [i \in 1..Len(QuizCalls(created)) |->
        [fn |-> QuizCalls(created)[i], idx |-> idx, quiz_id |-> quiz_id]]

\* the repository calls of lines 127-145 for the idx-th row, in order
QuestionEffects(idx, quiz_id, qid) ==
    <<[fn |-> "upsert_question", idx |-> idx, quiz_id |-> quiz_id, qid |-> qid],
      [fn |-> "upsert_question_term", idx |-> idx, quiz_id |-> quiz_id, qid |-> qid],
      [fn |-> "upsert_question_term", idx |-> idx, quiz_id |-> quiz_id, qid |-> qid]>>

\* lines 111-120: _qtype_from_code raises ValueError for an unknown code,
\* _build_answer_array lets the ValueError of parse_variants_block through
\* for SC and MC
LegacyMapping(r) ==
    IF ~QuestionTypeOf(r.qtype_code).ok
    THEN [ok |-> FALSE, err |-> "ValueError", at |-> "_qtype_from_code"]
    ELSE IF /\ QuestionTypeOf(r.qtype_code).qtype \in {"SC", "MC"}
            /\ ~parse_variants_block(r.variants_and_points).ok
    THEN [ok |-> FALSE, err |-> "ValueError", at |-> "_build_answer_array"]
    ELSE [ok |-> TRUE, qtype |-> QuestionTypeOf(r.qtype_code).qtype]

\* the id repo.upsert_question returns: the persistence layer generates a
\* new identifier for every question it is given
UpsertedQuestionId(run) == run.questions + 1

\* a variant of ByQuizAfter that opens a new list for every question
ByQuizAfterAlwaysNew(by_quiz, quiz_id, qid) ==
    Append(by_quiz, [quiz_id |-> quiz_id, qids |-> <<qid>>])

\* by_quiz.setdefault(quiz_id, []).append(qid), the dict kept in insertion
\* order
ByQuizAfter(by_quiz, quiz_id, qid) ==
    IF \E i \in 1..Len(by_quiz) : by_quiz[i].quiz_id = quiz_id
    THEN [i \in 1..Len(by_quiz) |->
             IF by_quiz[i].quiz_id = quiz_id
             THEN [by_quiz[i] EXCEPT !.qids = Append(@, qid)] ELSE by_quiz[i]]
    ELSE Append(by_quiz, [quiz_id |-> quiz_id, qids |-> <<qid>>])

\* the run after the loop body for the next row r, whose quiz is quiz_id and
\* whose mapping is mapping: an exception leaves the loop and the method
AfterLegacyRow(run, r, quiz_id, mapping) ==
    [run EXCEPT
        !.pos = run.pos + 1,
        !.quizzes = IF QuizIdByName(run.quizzes, r.quiz_title) = 0
                    THEN Append(run.quizzes, r.quiz_title) ELSE run.quizzes,
        !.questions = IF mapping.ok THEN run.questions + 1 ELSE run.questions,
        !.effects = run.effects
                      \o QuizEffects(run.pos + 1, quiz_id,
                                     QuizIdByName(run.quizzes, r.quiz_title) = 0)
                      \o (IF mapping.ok
                          THEN QuestionEffects(run.pos + 1, quiz_id,
                                               UpsertedQuestionId(run))
                          ELSE <<>>),
        !.by_quiz = IF mapping.ok
                    THEN ByQuizAfter(run.by_quiz, quiz_id, UpsertedQuestionId(run))
                    ELSE run.by_quiz,
        !.phase = IF mapping.ok THEN "loop" ELSE "raised"]

\* the update_quiz_pages calls of lines 150-151
PagesEffects(by_quiz) ==
    [i \in 1..Len(by_quiz) |->
        [fn |-> "update_quiz_pages", idx |-> 0, quiz_id |-> by_quiz[i].quiz_id,
         qids |-> by_quiz[i].qids]]

\* lines 76-82: the terms of the difficulty levels are ensured
LegacyStart ==
    /\ value.phase = "start"
    /\ value' = [value EXCEPT !.phase = "loop",
                              !.effects = <<[fn |-> "ensure_terms", idx |-> 0]>>]
    /\ UNCHANGED <<row, meta, settings, result, log>>

\* lines 84-147 for the next row
LegacyRow ==
    /\ value.phase = "loop"
    /\ value.pos < Len(value.rows)
    /\ value' = AfterLegacyRow(value, value.rows[value.pos + 1],
                               QuizIdFor(value.quizzes,
                                         value.rows[value.pos + 1].quiz_title),
                               LegacyMapping(value.rows[value.pos + 1]))
    /\ UNCHANGED <<row, meta, settings, result, log>>

\* lines 149-151: the pages of every quiz that got a question
LegacyFinish ==
    /\ value.phase = "loop"
    /\ value.pos = Len(value.rows)
    /\ value' = [value EXCEPT !.phase = "returned",
                              !.effects = @ \o PagesEffects(value.by_quiz)]
    /\ UNCHANGED <<row, meta, settings, result, log>>

---------------------------------------------------------------------------
(* A run of the legacy import on a small sheet: SpecLegacy.                *)

\* the rows of the sheet under the quiz titles "T1" and "T2"
LegacyRows ==
    {[r EXCEPT !.quiz_title = t] : r \in SheetRows,
                                   t \in {Str(<<"T", "1">>), Str(<<"T", "2">>)}}

InitLegacy ==
    /\ \E rows \in SeqsUpTo(LegacyRows, MaxRows),
          quizzes \in {<<>>, <<Str(<<"T", "1">>)>>} :
          value = [rows |-> rows, pos |-> 0, quizzes |-> quizzes, questions |-> 0,
                   effects |-> <<>>, by_quiz |-> <<>>, phase |-> "start"]
    /\ row = EmptyRow
    /\ meta = EmptyMeta
    /\ settings = DefaultSettings
    /\ result = NoResult
    /\ log = <<>>

NextLegacy == LegacyStart \/ LegacyRow \/ LegacyFinish

SpecLegacy == InitLegacy /\ [][NextLegacy]_vars

---------------------------------------------------------------------------
(* Claims about the batch imports.                                         *)

\* the rows of the run whose mapping fails in the legacy import
LegacyFailing == {i \in 1..Len(value.rows) : ~LegacyMapping(value.rows[i]).ok}

\* the rows for which the question was written
Delivered == {value.effects[i].idx : i \in {j \in 1..Len(value.effects) :
                                            value.effects[j].fn = "upsert_question"}}

\* C17: a row's mapping failure (malformed variant line, unknown type code)
\* never aborts the batch: the import does not end in an exception, and
\* when it has ended every row was processed and every row that maps has
\* been delivered.  Checked under SpecLegacy for import_questions_batch.
C17_BatchSurvivesRowFailure ==
    /\ value.phase # "raised"
    /\ value.phase = "returned" =>
          /\ value.pos = Len(value.rows)
          /\ Delivered = (1..Len(value.rows)) \ LegacyFailing

\* C18: when the mapping of a row fails, no repository call that writes was
\* made for that row before the failure: no quiz, quiz post, post meta or
\* question.  Checked under SpecLegacy.
C18_NoEffectForFailedRow ==
    value.phase = "raised" =>
        \A i \in 1..Len(value.effects) : value.effects[i].idx # value.pos

\* C19: every failure the LMS import records for a row carries that row's
\* question code and a reason, whatever its kind: unknown type code, mapping
\* error, validation request error, validation rejected.  Checked under
\* SpecImport.
C19_FailuresCarryQuestionCode ==
    \A i \in 1..Len(value.errors) :
        /\ value.errors[i].kind \in {"unknown_type", "mapping", "validate_request",
                                     "validate_rejected"}
        /\ "exc" \in DOMAIN value.errors[i]
        /\ "question_code" \in DOMAIN value.errors[i]
        /\ value.errors[i].question_code = value.rows[value.errors[i].idx].question_code

\* the five legal type codes
LegalCodes ==
    {Str(<<"S", "C">>), Str(<<"M", "C">>), Str(<<"S", "A">>),
     Str(<<"S", "A", "_", "C", "O", "M">>), Str(<<"T", "A">>)}

\* the type code of r, trimmed and upper-cased, is none of the legal codes
HasIllegalCode(r) == Upper(Strip(r.qtype_code)) \notin LegalCodes

\* the rows the loop has processed
Processed == 1..(IF value.phase = "start" THEN 0 ELSE value.pos)

ErrorsOf(idx) == {i \in 1..Len(value.errors) : value.errors[i].idx = idx}

Validated == {value.calls[i].idx : i \in {j \in 1..Len(value.calls) :
                                          value.calls[j].fn = "validate_task"}}

---------------------------------------------------------------------------
(* Claims about the short-answer rules, checked under SpecShort.           *)

\* the rules build_solution_rules gives the same row as a plain short answer
PlainShortRules == BuildSolutionRules(row, "SA", settings).solution

\* C21: the rules built for SA_COM have manual_review_required true and are
\* otherwise the rules built for SA on the same row: same max_score,
\* scoring_mode, auto_check and accepted answers.
C21_CommentVariantOnlyAddsReview ==
    (ShortDone /\ result.qtype = "SA_COM") =>
        /\ result.out.solution.manual_review_required
        /\ result.out.solution.max_score = PlainShortRules.max_score
        /\ result.out.solution.scoring_mode = PlainShortRules.scoring_mode
        /\ result.out.solution.auto_check = PlainShortRules.auto_check
        /\ result.out.solution.short_answer = PlainShortRules.short_answer
        /\ result.out.solution = [PlainShortRules EXCEPT !.manual_review_required = TRUE]

C21_Witness ==
    /\ ShortDone
    /\ result.qtype = "SA_COM"
    /\ result.out.solution.manual_review_required
    /\ ~PlainShortRules.manual_review_required
    /\ PlainShortRules.auto_check
    /\ Len(ShortAnswer.accepted_answers) = 2

\* the default of the batch, in hundredths; 1.0 when no settings are passed
BatchDefault == IF settings = None THEN 100 ELSE settings.default_points_short_answer

AcceptedScores ==
    {ShortAnswer.accepted_answers[i].score : i \in 1..Len(ShortAnswer.accepted_answers)}

\* C22 (as claimed): every accepted answer of a short-answer row carries the
\* batch-level default as its points, and max_score is that default.
C22_ScoreIsBatchDefault ==
    (ShortDone /\ settings # None) =>
        /\ \A sc \in AcceptedScores : 100 * sc = BatchDefault
        /\ 100 * result.out.solution.max_score = BatchDefault

\* n is the integer nearest to d hundredths, the even one of two
IsNearestInteger(n, d) ==
    /\ 100 * n - d \in -50..50
    /\ 100 * n - d \in {-50, 50} => n % 2 = 0

\* C22 (amended): every accepted answer of a short-answer row carries the
\* same points, the batch-level default rounded to the nearest integer (a
\* half goes to the even one; 1 when no settings are passed), and max_score
\* is that integer, for every number of candidates, none and a regex cell
\* included.
C22_ScoreIsRoundedDefault ==
    ShortDone =>
        /\ \A sc \in AcceptedScores : IsNearestInteger(sc, BatchDefault)
        /\ IsNearestInteger(result.out.solution.max_score, BatchDefault)
        /\ Len(ShortAnswer.accepted_answers) =
              IF HasRePrefix(Strip(row.correct_answer)) THEN 0 ELSE Len(Candidates)

C22_Witness ==
    /\ ShortDone
    /\ BatchDefault = 150
    /\ Len(ShortAnswer.accepted_answers) = 2
    /\ AcceptedScores = {2}
    /\ result.out.solution.max_score = 2

---------------------------------------------------------------------------
(* Claims about the choice rules, checked under SpecChoice.                *)

\* C23: the scoring mode is all_or_nothing for every SC row and partial for
\* every MC row, whatever the options, their points and the correct answers.
C23_ModeFollowsType ==
    ChoiceDone =>
        result.out.solution.scoring_mode =
            IF result.qtype = "SC" THEN "all_or_nothing" ELSE "partial"

\* C23 witnesses: an MC row with one correct option, and an SC row with two
C23_Witness ==
    /\ ChoiceDone
    /\ result.qtype = "MC"
    /\ Cardinality(CorrectIndexes) = 1
    /\ result.out.solution.scoring_mode = "partial"

C23_WitnessSingleChoice ==
    /\ ChoiceDone
    /\ result.qtype = "SC"
    /\ Cardinality(CorrectIndexes) = 2
    /\ result.out.solution.scoring_mode = "all_or_nothing"

---------------------------------------------------------------------------
(* Claims about the task content, checked under SpecMapper.                *)

\* the task content a finished call built, by build_task_content itself or
\* inside row_to_task_upsert_item
ContentBuilt ==
    /\ result.op \in {"build_task_content", "row_to_task_upsert_item"}
    /\ result.out.ok

BuiltContent ==
    IF result.op = "build_task_content" THEN result.out.content
    ELSE result.out.item.task_content

RowType == QuestionTypeOf(row.qtype_code).qtype

\* C24: options of the task content is a list, one entry per option in
\* parse order, for SC and MC, and null for SA, SA_COM and TA; an entry
\* holds id, text, explanation and is_active and nothing about correctness
\* or points.
C24_OptionsOnlyForChoiceNoScoring ==
    ContentBuilt =>
        IF RowType \in {"SC", "MC"}
        THEN /\ BuiltContent.options # NoneList
             /\ Len(BuiltContent.options) = Cardinality(NonBlankStarts)
             /\ \A i \in 1..Len(BuiltContent.options) :
                   /\ DOMAIN BuiltContent.options[i]
                         = {"id", "text", "explanation", "is_active"}
                   /\ BuiltContent.options[i].id = <<64 + i>>
                   /\ BuiltContent.options[i].text = normalize(LeftOf(KthLine(i)))
        ELSE BuiltContent.options = NoneList

C24_Witness ==
    /\ ContentBuilt
    /\ result.op = "build_task_content"
    /\ RowType = "MC"
    /\ Len(BuiltContent.options) = 2
    /\ BuiltContent.options[1].text = Str(<<"a", "|", "|", "b">>)
    /\ BuiltContent.options[2].text = Str(<<"p", "a", "r", "i", "s">>)

C24_WitnessNoOptions ==
    /\ ContentBuilt
    /\ RowType \in {"SA_COM", "TA"}
    /\ Cardinality(NonBlankStarts) = 2
    /\ BuiltContent.options = NoneList

---------------------------------------------------------------------------
(* The statement text of a row: SpecStem.                                  *)

\* cell texts as the sheet reader delivers them (trimmed): "", "Hi  There",
\* "x" and the two lines "x", "Y"
StemTexts == {<<>>, <<72, 105, 32, 32, 84, 104, 101, 114, 101>>, <<120>>,
              <<120, 10, 89>>}

\* input links: none and "u/v"
StemLinks == {<<>>, <<117, 47, 118>>}

\* labels: the one of config.py and "In"
StemLabels == {DefaultSettings.input_link_label, <<73, 110>>}

InitStem ==
    /\ \E t \in StemTexts, l \in StemLinks, tc \in MapperTypeCodes :
          row = [EmptyRow EXCEPT !.text = t, !.input_link = l, !.qtype_code = tc,
                                 !.question_code = Str(<<"Q", "1">>),
                                 !.variants_and_points =
                                     Str(<<"P", "a", "r", "i", "s", "|", "|", "2">>),
                                 !.correct_answer = Str(<<"P", "a", "r", "i", "s">>),
                                 !.difficulty_ru = Str(<<"a", "b">>)]
    /\ meta = OneCourseMeta
    /\ \E flag \in BOOLEAN, label \in StemLabels :
          settings = [DefaultSettings EXCEPT !.prepend_input_link = flag,
                                             !.input_link_label = label]
    /\ value = None
    /\ result = NoResult
    /\ log = <<>>

\* a call of _build_stem_text(row, settings)
CallBuildStemText ==
    /\ result.op = "none"
    /\ Returns("build_stem_text", BuildStemText(row, settings), <<>>)

NextStem ==
    \/ CallBuildStemText
    \/ CallBuildTaskContent
    \/ CallRowToTaskUpsertItem

SpecStem == InitStem /\ [][NextStem]_vars

\* the statement a finished call produced
StemBuilt ==
    \/ result.op = "build_stem_text"
    \/ /\ result.op \in {"build_task_content", "row_to_task_upsert_item"}
       /\ result.out.ok

Stem ==
    IF result.op = "build_stem_text" THEN result.out
    ELSE IF result.op = "build_task_content" THEN result.out.content.stem
    ELSE result.out.item.task_content.stem

\* "[label: link]"
LinkBlock ==
    <<91>> \o settings.input_link_label \o <<58, 32>> \o row.input_link \o <<93>>

BlankLine == <<10, 10>>

LinkWanted == settings.prepend_input_link /\ row.input_link # <<>>

\* C25 as stated: with the flag on and a link present the statement is the
\* link block, a blank line and the normalized text; otherwise it is the
\* normalized text.
C25_LinkBlockBlankLineText ==
    StemBuilt =>
        Stem = IF LinkWanted THEN LinkBlock \o BlankLine \o normalize(row.text)
               ELSE normalize(row.text)

\* C25: with the flag on and a link present the statement is the link block,
\* followed by a blank line and the normalized text when that text is not
\* empty, and the link block alone when it is; otherwise the statement is the
\* normalized text.
C25_LinkBlockThenTextIfAny ==
    StemBuilt =>
        Stem = IF ~LinkWanted THEN normalize(row.text)
               ELSE IF normalize(row.text) = <<>> THEN LinkBlock
               ELSE LinkBlock \o BlankLine \o normalize(row.text)

C25_Witness ==
    /\ StemBuilt
    /\ LinkWanted
    /\ row.text = <<72, 105, 32, 32, 84, 104, 101, 114, 101>>
    /\ Stem = LinkBlock \o BlankLine \o <<104, 105, 32, 116, 104, 101, 114, 101>>

C25_WitnessEmptyText ==
    /\ StemBuilt
    /\ LinkWanted
    /\ row.text = <<>>
    /\ Stem = LinkBlock

---------------------------------------------------------------------------
(* Repeated mapping of the rows of a batch in any order: SpecPure.  value  *)
(* holds the batch as the caller sees it (rows), the batch and the tables  *)
(* as they were given (rows0, meta0), and for each row the outcomes of the *)
(* calls made on it so far (outs).                                         *)

MaxCalls == 3

BatchSize == 2

InitPure ==
    /\ meta \in {OneCourseMeta, TwoCourseMeta}
    /\ \E rows \in [1..BatchSize -> SheetRows] :
          value = [rows |-> rows, rows0 |-> rows, meta0 |-> meta,
                   outs |-> [i \in 1..BatchSize |-> <<>>], calls |-> 0]
    /\ row = EmptyRow
    /\ settings = DefaultSettings
    /\ result = NoResult
    /\ log = <<>>

\* row_to_task_upsert_item(rows[i], meta, settings) on the caller's objects
MapRowAt(i) ==
    /\ value.calls < MaxCalls
    /\ value' = [value EXCEPT
                    !.rows[i] = ArgumentsAfterMapping(value.rows[i], meta, settings).row,
                    !.outs[i] = Append(@, RowToTaskUpsertItem(value.rows[i], meta, settings)),
                    !.calls = @ + 1]
    /\ meta' = ArgumentsAfterMapping(value.rows[i], meta, settings).meta
    /\ row' = value.rows[i]
    /\ result' = [op |-> "row_to_task_upsert_item", out |-> Len(value.outs[i]) + 1]
    /\ UNCHANGED <<settings, log>>

MapAnyRow == \E i \in 1..BatchSize : MapRowAt(i)

NextPure == MapAnyRow

SpecPure == InitPure /\ [][NextPure]_vars

\* the outcome of mapping the i-th row first, before any other call
MappedAlone(i) == RowToTaskUpsertItem(value.rows0[i], value.meta0, settings)

---------------------------------------------------------------------------
(* Claims about the bulk upsert of the LMS import, checked under           *)
(* SpecImport.                                                             *)

\* the places of the bulk_upsert_tasks calls among the calls of the run
BulkCalls == {j \in 1..Len(value.calls) : value.calls[j].fn = "bulk_upsert_tasks"}

\* the rows, by number, that validate_task reported is_valid
AcceptedRows ==
    {value.calls[j].idx : j \in {k \in 1..Len(value.calls) :
                                    /\ value.calls[k].fn = "validate_task"
                                    /\ value.calls[k].answer = "valid"}}

\* the numbers of the accepted rows in input-row order
AcceptedInOrder ==
    SelectSeq([i \in 1..Len(value.rows) |-> i], LAMBDA i : i \in AcceptedRows)

\* the items of the accepted rows in input-row order
AcceptedItems ==
    [k \in 1..Len(AcceptedInOrder) |->
        RowToTaskUpsertItem(value.rows[AcceptedInOrder[k]], meta, settings).item]

\* C27: bulk_upsert_tasks is called at most once per run, as the last call
\* and after every row was processed; never on a dry run, for an empty
\* sheet or when no row is valid; its argument is the items of the rows that
\* mapped and that validate_task reported valid, in input-row order.
C27_BulkUpsertOnceWithValidItems ==
    /\ Cardinality(BulkCalls) <= 1
    /\ \A j \in BulkCalls :
          /\ j = Len(value.calls)
          /\ value.phase \in {"returned", "raised"}
          /\ value.pos = Len(value.rows)
          /\ ~settings.lms_import_dry_run
          /\ value.rows # <<>>
          /\ AcceptedRows # {}
          /\ value.calls[j].items = AcceptedItems
          /\ \A i \in AcceptedRows :
                /\ QuestionTypeOf(value.rows[i].qtype_code).ok
                /\ RowToTaskUpsertItem(value.rows[i], meta, settings).ok

\* two valid rows sent in row order
C27_Witness ==
    /\ BulkCalls # {}
    /\ Len(value.rows) = 2
    /\ AcceptedRows = {1, 2}
    /\ Len(value.calls[Len(value.calls)].items) = 2
    /\ value.calls[Len(value.calls)].items[1].external_uid = Str(<<"Q", "5">>)
    /\ value.calls[Len(value.calls)].items[2].external_uid = Str(<<"Q", "1">>)

\* a rejected row left out of the call
C27_WitnessRejectedRowLeftOut ==
    /\ BulkCalls # {}
    /\ Len(value.rows) = 2
    /\ AcceptedRows = {2}
    /\ Validated = {1, 2}
    /\ Len(value.calls[Len(value.calls)].items) = 1

\* a dry run that ended with valid rows and no call
C27_WitnessDryRun ==
    /\ value.phase = "returned"
    /\ settings.lms_import_dry_run
    /\ AcceptedRows # {}
    /\ BulkCalls = {}

---------------------------------------------------------------------------
(* Claims about the score of a mapped record, checked under SpecMapper.    *)

\* row_to_task_upsert_item returned a record
ItemMapped == result.op = "row_to_task_upsert_item" /\ result.out.ok

MappedItemOf == result.out.item

\* the score the builders compute for the row: the rounded sum of the points
\* of the correct options for SC and MC, the rounded default for SA and
\* SA_COM, 5 for TA
ComputedScore ==
    IF RowType \in {"SC", "MC"}
    THEN RoundToInt(SumAt(EffectiveOptions(ParseChoiceOptions(row).options),
                          {i \in 1..Len(ParseChoiceOptions(row).options) :
                              ParseChoiceOptions(row).options[i].is_correct}))
    ELSE IF RowType = "TA" THEN 5
    ELSE DefaultScore(settings)

\* the top-level max_score of a record is the max_score of its solution
\* rules and the score computed from the variants, the answers and the
\* settings
C28_MaxScoreCopiesRules ==
    ItemMapped =>
        /\ MappedItemOf.max_score = MappedItemOf.solution_rules.max_score
        /\ MappedItemOf.max_score = ComputedScore

---------------------------------------------------------------------------
(* Claims about the options of a mapped choice record, checked under       *)
(* SpecMapper.                                                             *)

ContentOptions == MappedItemOf.task_content.options

CorrectOptions == MappedItemOf.solution_rules.correct_options

\* the places of the content options that carry the id
PlacesOf(id) == {i \in 1..Len(ContentOptions) : ContentOptions[i].id = id}

\* the content option at place i is listed as correct
ListedCorrect(i) ==
    \E k \in 1..Len(CorrectOptions) : CorrectOptions[k] = ContentOptions[i].id

\* C29: in the record of a choice row every id of correct_options is the id
\* of exactly one content option, correct_options follows the option order
\* without duplicates, and two options of equal normalized text are both
\* listed as correct or both not.
C29_BuildersAgreeOnOptions ==
    (ItemMapped /\ RowType \in {"SC", "MC"}) =>
        /\ \A k \in 1..Len(CorrectOptions) :
              Cardinality(PlacesOf(CorrectOptions[k])) = 1
        /\ \A k, l \in 1..Len(CorrectOptions) :
              k < l => \A i \in PlacesOf(CorrectOptions[k]),
                          j \in PlacesOf(CorrectOptions[l]) : i < j
        /\ \A i, j \in 1..Len(ContentOptions) :
              ContentOptions[i].text = ContentOptions[j].text
                  => (ListedCorrect(i) <=> ListedCorrect(j))

\* two options of the text "paris" with different points, both listed in
\* option order
C29_Witness ==
    /\ ItemMapped
    /\ RowType = "MC"
    /\ Len(ContentOptions) = 2
    /\ ContentOptions[1].text = ContentOptions[2].text
    /\ CorrectOptions = <<ContentOptions[1].id, ContentOptions[2].id>>
    /\ CorrectOptions = <<<<65>>, <<66>>>>

\* an option listed after one that is not
C29_WitnessSecondOnly ==
    /\ ItemMapped
    /\ Len(ContentOptions) = 2
    /\ CorrectOptions = <<ContentOptions[2].id>>

---------------------------------------------------------------------------
(* Claims about the quiz pages of the legacy import, checked under         *)
(* SpecLegacy.                                                             *)

\* the places of the calls of fn among the repository calls of the run
CallsOf(fn) == {j \in 1..Len(value.effects) : value.effects[j].fn = fn}

\* the quizzes that received a question in the batch
QuizzesWithQuestions == {value.effects[j].quiz_id : j \in CallsOf("upsert_question")}

\* the ids of the questions written for quiz q, in row order
InsertedFor(q) ==
    [k \in 1..Len(SelectSeq(value.effects,
                            LAMBDA e : e.fn = "upsert_question" /\ e.quiz_id = q)) |->
        SelectSeq(value.effects,
                  LAMBDA e : e.fn = "upsert_question" /\ e.quiz_id = q)[k].qid]

\* the places <<call, position>> where the question id stands in the lists
\* given to update_quiz_pages
ListedAt(qid) ==
    {<<j, p>> \in CallsOf("update_quiz_pages") \X (1..Len(value.rows)) :
        p <= Len(value.effects[j].qids) /\ value.effects[j].qids[p] = qid}

\* C30: when import_questions_batch has returned, update_quiz_pages was
\* called once for each quiz that received a question and for no other,
\* after every row was written, with the ids of the questions written for
\* that quiz in row order; each written question stands in one list, once.
\* Until the method returns no update_quiz_pages call is made.
C30_PagesOncePerQuizInRowOrder ==
    /\ value.phase # "returned" => CallsOf("update_quiz_pages") = {}
    /\ value.phase = "returned" =>
          /\ \A q \in QuizzesWithQuestions :
                Cardinality({j \in CallsOf("update_quiz_pages") :
                                value.effects[j].quiz_id = q}) = 1
          /\ \A j \in CallsOf("update_quiz_pages") :
                /\ value.effects[j].quiz_id \in QuizzesWithQuestions
                /\ value.effects[j].qids = InsertedFor(value.effects[j].quiz_id)
                /\ \A k \in 1..Len(value.effects) :
                      k \notin CallsOf("update_quiz_pages") => k < j
          /\ \A k \in CallsOf("upsert_question") :
                Cardinality(ListedAt(value.effects[k].qid)) = 1

\* two questions of one quiz, listed in row order in one call
C30_Witness ==
    /\ value.phase = "returned"
    /\ Cardinality(CallsOf("update_quiz_pages")) = 1
    /\ value.effects[Len(value.effects)].qids = <<1, 2>>
    /\ value.rows[1] # value.rows[2]

\* two quizzes, one call each
C30_WitnessTwoQuizzes ==
    /\ value.phase = "returned"
    /\ Cardinality(CallsOf("update_quiz_pages")) = 2
    /\ Cardinality(QuizzesWithQuestions) = 2

=============================================================================
